---------------------------- MODULE Spec2Model ----------------------------
(***************************************************************************)
(* A model of the nature-asia backend: the vehicle-to-vehicle service      *)
(* (v2vService.js), the scheduled jobs (dataUpdateJob.js), the disaster    *)
(* aggregator and its feed adapters (disasterService.js), the bearer-token *)
(* middleware (auth.js), the account and chat routes (routes/auth.js,      *)
(* chat.js) and the rate limiter (server.js).                              *)
(*                                                                         *)
(* The module holds several specifications over one set of variables; each *)
(* specification moves the variables of one part of the backend and leaves *)
(* the others at their initial values:                                     *)
(*   SpecV2V     vehicles, nearby query, emergency broadcast               *)
(*   SpecMsg     text messages with AI enhancement                         *)
(*   SpecStatus  the clock, lastSeen, the status sweep (FairSpecStatus     *)
(*               adds the fairness of the every-minute cron schedule)      *)
(*   SpecJob     the disaster-refresh job and its isRunning flag           *)
(*   SpecAgg     getAllDisasters over the four feeds                       *)
(*   SpecRefresh updateDisasterData fed by getAllDisasters                 *)
(*   SpecAnalytics  generateDisasterAnalytics: summary and trend, in days  *)
(*   SpecHttp    authenticateToken and DELETE /api/chat/history/:id        *)
(*   SpecClient  the frontend's ApiClient against authenticateToken        *)
(*   SpecFeed    the four feed adapters and the weather severity           *)
(*   SpecAccount DELETE /api/auth/account                                  *)
(*   SpecVerify  POST /api/auth/verify and PUT /api/auth/profile           *)
(*   SpecRoutes  the validated chat routes and POST /api/v2v/register      *)
(*   SpecCleanup cleanupOldData, in days                                   *)
(*   SpecLimiter the rate limiter ahead of the routes                      *)
(*   SpecTimers  the timer jobs without a flag, overlapping                *)
(* In SpecCleanup the clock is in days, elsewhere in minutes; in           *)
(* SpecRoutes and SpecLimiter http holds the last request only, in         *)
(* SpecVerify the requests to the two auth routes.                         *)
(***************************************************************************)
EXTENDS Integers, Sequences, FiniteSets, TLC

VARIABLES
    vehicles,        \* collection 'vehicles': document id -> document
    v2v_messages,    \* collection 'v2v_messages': documents in write order
    lastOp,          \* what the last service call was given and returned
    now,             \* the wall clock, in minutes
    sweep,           \* the batches of updateVehicleStatus runs awaiting commit
    statusReply,     \* what the last getVehicleStatus call returned
    isRunning,       \* DataUpdateJob.isRunning
    runs,            \* the invocations of the timer jobs / refreshAllData
    disaster_updates,\* collection 'disaster_updates': documents in write order
    cache,           \* document cache/disasters
    feeds,           \* how the four feed promises of the call settled
    aggResult,       \* what getAllDisasters returned (NoResult before)
    chat_history,    \* collection 'chat_history': the documents, by id
    http,            \* the HTTP requests received, each with its position
    feature,         \* the raw item a feed adapter is given
    record,          \* the disaster record the adapter made of it
    users,           \* collection 'users': uid -> document
    analytics,       \* collection 'analytics': documents in write order
    limiter,         \* the rate limiter's store: IP -> hits in the window
    ai_analyses,     \* collection 'ai_analyses': documents in write order
    emergency_plans, \* collection 'emergency_plans': documents in write order
    browser          \* localStorage.authToken and window.location.href

v2vVars    == <<vehicles, v2v_messages, lastOp>>
statusVars == <<now, sweep, statusReply>>
jobVars    == <<isRunning, runs, disaster_updates, cache>>
aggVars    == <<feeds, aggResult>>
httpVars   == <<chat_history, http>>
extVars    == <<feature, record, users, analytics, limiter,
                ai_analyses,
                emergency_plans,
                browser>>
vars       == <<vehicles, v2v_messages, lastOp, now, sweep, statusReply,
                isRunning, runs, disaster_updates, cache, feeds, aggResult,
                chat_history, http, feature, record, users, analytics,
                limiter,
                ai_analyses,
                emergency_plans,
                browser>>

\* A field a JavaScript object does not have (undefined).
Absent == "absent"

(***************************************************************************)
(* Vehicles and geometry.                                                  *)
(***************************************************************************)

\* Document ids of the 'vehicles' collection (Firestore auto-ids).
VehicleIds == {1, 2, 3}

\* Coordinates are in hundredths of a degree.  The four positions:
\*   PA  0.00N 179.90E
\*   PB  0.00N 179.90W   22.2 km east of PA, across the antimeridian
\*   PC  0.00N 179.70E   22.2 km west of PA
\*   PD  0.40N 179.50E   62.9 km from PA, 49.7 km from PC
PA == [latitude |-> 0, longitude |-> 17990]
PB == [latitude |-> 0, longitude |-> -17990]
PC == [latitude |-> 0, longitude |-> 17970]
PD == [latitude |-> 40, longitude |-> 17950]
Points == {PA, PB, PC, PD}

\* The radii a caller passes: the route's default 10, the broadcast's 50, and
\* the route's maximum 100 (km).
Radii == {10, 50, 100}

Statuses == {"active", "warning", "inactive"}

\* 1000000 * Math.cos(latitude * Math.PI / 180), rounded, for the latitudes
\* of Points.
CosE6(latitude) ==
    CASE latitude = 0 -> 1000000
      [] latitude = 40 -> 999976

\* calculateDistance: the haversine distance, in metres rounded up, as the
\* JavaScript formula computes it with R = 6371 for the coordinates of Points.
calculateDistance(lat1, lon1, lat2, lon2) ==
    LET p == <<lat1, lon1>>
        q == <<lat2, lon2>>
        a == <<0, 17990>>
        b == <<0, -17990>>
        c == <<0, 17970>>
        d == <<40, 17950>>
        pair(x, y) == {p, q} = {x, y}
    IN  CASE p = q -> 0
          [] pair(a, b) -> 22239
          [] pair(a, c) -> 22239
          [] pair(a, d) -> 62902
          [] pair(b, c) -> 44478
          [] pair(b, d) -> 80184
          [] pair(c, d) -> 49728

\* The documents the bounding-box query of getNearbyVehicles returns: the five
\* where() clauses.  latRange = radiusKm / 111 and
\* lngRange = radiusKm / (111 * cos(latitude)) degrees; a whole number of
\* hundredths lies within the range iff it lies within the range rounded down.
BoundingBoxQuery(latitude, longitude, radiusKm) ==
    LET latRange == (radiusKm * 100) \div 111
        lngRange == (radiusKm * 100 * 1000) \div ((111 * CosE6(latitude)) \div 1000)
        minLat == latitude - latRange
        maxLat == latitude + latRange
        minLng == longitude - lngRange
        maxLng == longitude + lngRange
    IN  {id \in DOMAIN vehicles :
            /\ vehicles[id].location.latitude >= minLat
            /\ vehicles[id].location.latitude <= maxLat
            /\ vehicles[id].location.longitude >= minLng
            /\ vehicles[id].location.longitude <= maxLng
            /\ vehicles[id].status = "active"}

\* getNearbyVehicles without the haversine refinement (a mutant).
getNearbyVehicles_BoxOnly(vehicleId, radiusKm) ==
    IF vehicleId \notin DOMAIN vehicles
    THEN [success |-> FALSE, data |-> {}, count |-> 0]
    ELSE LET latitude == vehicles[vehicleId].location.latitude
             longitude == vehicles[vehicleId].location.longitude
             nearbyVehicles ==
                 {id \in BoundingBoxQuery(latitude, longitude, radiusKm) :
                     id # vehicleId}
         IN  [success |-> TRUE, data |-> nearbyVehicles,
              count |-> Cardinality(nearbyVehicles)]

\* getNearbyVehicles: the ids of the returned vehicles.
getNearbyVehicles(vehicleId, radiusKm) ==
    IF vehicleId \notin DOMAIN vehicles
    THEN [success |-> FALSE, data |-> {}, count |-> 0]
    ELSE LET latitude == vehicles[vehicleId].location.latitude
             longitude == vehicles[vehicleId].location.longitude
             nearbyVehicles ==
                 {id \in BoundingBoxQuery(latitude, longitude, radiusKm) :
                     /\ id # vehicleId
                     /\ calculateDistance(latitude, longitude,
                            vehicles[id].location.latitude,
                            vehicles[id].location.longitude)
                          <= radiusKm * 1000}
         IN  [success |-> TRUE, data |-> nearbyVehicles,
              count |-> Cardinality(nearbyVehicles)]

\* The ids of a set of vehicles in ascending order.
RECURSIVE InOrder(_)
InOrder(S) ==
    IF S = {} THEN <<>>
    ELSE LET m == CHOOSE x \in S : \A y \in S : x <= y
         IN  <<m>> \o InOrder(S \ {m})

\* The most documents v2v_messages holds in the model.
MaxMessages == 3

\* The radius broadcastEmergencyMessage queries with (km).
BroadcastRadius == 50

\* lastOp when the last call was neither a query nor a send.
NoOp == [op |-> "none", vehicleId |-> 0, radiusKm |-> 0, success |-> TRUE,
         data |-> {}, count |-> 0, before |-> 0]

\* registerVehicle: a new document with status 'active' and lastSeen now.
RegisterVehicle(id, p) ==
    /\ id \notin DOMAIN vehicles
    /\ vehicles' = vehicles @@
           (id :> [location |-> p, status |-> "active", lastSeen |-> now])
    /\ lastOp' = NoOp
    /\ UNCHANGED v2v_messages

\* A location update that also stores status 'active' (a mutant).
UpdateVehicleLocation_Reactivates(id, p) ==
    /\ vehicles' = IF id \in DOMAIN vehicles
                   THEN [vehicles EXCEPT ![id].location = p,
                                         ![id].lastSeen = now,
                                         ![id].status = "active"]
                   ELSE vehicles
    /\ lastOp' = NoOp
    /\ UNCHANGED v2v_messages

\* updateVehicleLocation: update() of the location and lastSeen; update() of a
\* document that does not exist throws and nothing is written.
UpdateVehicleLocation(id, p) ==
    /\ vehicles' = IF id \in DOMAIN vehicles
                   THEN [vehicles EXCEPT ![id].location = p,
                                         ![id].lastSeen = now]
                   ELSE vehicles
    /\ lastOp' = NoOp
    /\ UNCHANGED v2v_messages

\* GET /:vehicleId/nearby.
GetNearbyVehicles(id, radiusKm) ==
    LET r == getNearbyVehicles(id, radiusKm)
    IN  /\ lastOp' = [op |-> "nearby", vehicleId |-> id, radiusKm |-> radiusKm,
                      success |-> r.success, data |-> r.data,
                      count |-> r.count, before |-> Len(v2v_messages)]
        /\ UNCHANGED <<vehicles, v2v_messages>>

\* A broadcast that takes the master message back when the commit of the
\* copies fails (a mutant).
broadcastEmergencyMessage_Rollback(senderVehicleId, queryOk, commitOk) ==
    [messages |-> v2v_messages, success |-> FALSE, broadcastCount |-> 0,
     nearby |-> TRUE]

\* broadcastEmergencyMessage: the documents it leaves in v2v_messages and what
\* it returns.  queryOk is whether the queries of getNearbyVehicles resolve
\* (its catch block returns success:false when one throws), commitOk whether
\* batch.commit() resolves.  The fields of emergencyData other than the ones
\* below do not matter here.
broadcastEmergencyMessage(senderVehicleId, queryOk, commitOk) ==
    LET message == [senderVehicleId |-> senderVehicleId, type |-> "emergency",
                    priority |-> "high", timestamp |-> now,
                    status |-> "broadcast"]
        master == Append(v2v_messages, message)
        nearbyVehicles ==
            IF queryOk
            THEN getNearbyVehicles(senderVehicleId, BroadcastRadius)
            ELSE [success |-> FALSE, data |-> {}, count |-> 0]
        order == InOrder(nearbyVehicles.data)
        copies == [i \in 1..Len(order) |->
                      [targetVehicleId |-> order[i]] @@ message]
    IN  IF nearbyVehicles.success /\ ~commitOk
        THEN [messages |-> master, success |-> FALSE, broadcastCount |-> 0,
              nearby |-> TRUE]
        ELSE [messages |-> IF nearbyVehicles.success
                           THEN master \o copies ELSE master,
              success |-> TRUE,
              broadcastCount |-> IF nearbyVehicles.success
                                 THEN nearbyVehicles.count ELSE 0,
              nearby |-> nearbyVehicles.success]

\* POST /:vehicleId/emergency.
BroadcastEmergencyMessage(id, queryOk, commitOk) ==
    LET r == broadcastEmergencyMessage(id, queryOk, commitOk)
    IN  /\ Len(r.messages) <= MaxMessages
        /\ v2v_messages' = r.messages
        /\ lastOp' = [op |-> "broadcast", vehicleId |-> id,
                      radiusKm |-> BroadcastRadius, success |-> r.success,
                      data |-> {}, count |-> r.broadcastCount,
                      before |-> Len(v2v_messages), nearby |-> r.nearby]
        /\ UNCHANGED vehicles

\* The stores a run can start from: any vehicles the routes and the status
\* sweep can have left behind, and no messages.
VehicleStores ==
    UNION {[S -> [location : Points, status : Statuses, lastSeen : {0}]] :
             S \in SUBSET VehicleIds}

\* The variables of the other parts of the backend at rest.
StatusAtRest ==
    /\ now = 0
    /\ sweep = <<>>
    /\ statusReply = [vehicleId |-> 0, success |-> FALSE]

JobAtRest ==
    /\ isRunning = FALSE
    /\ runs = <<>>
    /\ disaster_updates = <<>>
    /\ cache = [count |-> Absent, writer |-> 0]

\* getAllDisasters has not returned.
NoResult == [pending |-> TRUE]

AggAtRest ==
    /\ feeds = <<>>
    /\ aggResult = NoResult

HttpAtRest ==
    /\ chat_history = <<>>
    /\ http = <<>>

\* No adapter has produced a record.
NoRecord == [pending |-> TRUE]

ExtAtRest ==
    /\ feature = [kind |-> "none"]
    /\ record = NoRecord
    /\ users = <<>>
    /\ analytics = <<>>
    /\ limiter = <<>>
    /\ ai_analyses = <<>>
    /\ emergency_plans = <<>>
    /\ browser = [authToken |-> "", href |-> "/"]

InitV2V ==
    /\ vehicles \in VehicleStores
    /\ v2v_messages = <<>>
    /\ lastOp = NoOp
    /\ StatusAtRest /\ JobAtRest /\ AggAtRest /\ HttpAtRest /\ ExtAtRest

\* The vehicle id the nearby queries and broadcasts are made for (the ids are
\* interchangeable; its document may or may not exist); the other vehicles
\* register, move and receive.
Callers == {1}

V2VRegister ==
    /\ \E id \in VehicleIds, p \in Points : RegisterVehicle(id, p)
    /\ UNCHANGED <<statusVars, jobVars, aggVars, httpVars, extVars>>

V2VUpdateLocation ==
    /\ \E id \in VehicleIds, p \in Points : UpdateVehicleLocation(id, p)
    /\ UNCHANGED <<statusVars, jobVars, aggVars, httpVars, extVars>>

V2VNearby ==
    /\ \E id \in Callers, r \in Radii : GetNearbyVehicles(id, r)
    /\ UNCHANGED <<statusVars, jobVars, aggVars, httpVars, extVars>>

V2VBroadcast ==
    /\ \E id \in Callers, queryOk \in BOOLEAN, ok \in BOOLEAN :
          BroadcastEmergencyMessage(id, queryOk, ok)
    /\ UNCHANGED <<statusVars, jobVars, aggVars, httpVars, extVars>>

NextV2V == V2VRegister \/ V2VUpdateLocation \/ V2VNearby \/ V2VBroadcast

SpecV2V == InitV2V /\ [][NextV2V]_vars

(***************************************************************************)
(* Claims about the nearby query and the broadcast (SpecV2V).  In every    *)
(* state lastOp describes the call that produced the state, so the stores  *)
(* are the ones that call read and left.                                   *)
(***************************************************************************)

\* The haversine distance between two stored vehicles, in metres.
StoredDistance(a, b) ==
    calculateDistance(vehicles[a].location.latitude,
                      vehicles[a].location.longitude,
                      vehicles[b].location.latitude,
                      vehicles[b].location.longitude)

\* C1: getNearbyVehicles(vehicleId, R) never returns the reference vehicle,
\* never a vehicle farther than R (haversine) from the reference's stored
\* coordinates, and only vehicles whose stored status is 'active'.
C1_NearbySound ==
    (lastOp.op = "nearby" /\ lastOp.success) =>
        \A id \in lastOp.data :
            /\ id # lastOp.vehicleId
            /\ id \in DOMAIN vehicles
            /\ vehicles[id].status = "active"
            /\ StoredDistance(lastOp.vehicleId, id) <= lastOp.radiusKm * 1000

\* C1 witness: a query that returned a vehicle and left out an active vehicle
\* of the bounding box because it lies beyond the radius.
C1_Witness ==
    /\ lastOp.op = "nearby" /\ lastOp.success
    /\ lastOp.data # {}
    /\ \E id \in DOMAIN vehicles \ (lastOp.data \cup {lastOp.vehicleId}) :
          /\ StoredDistance(lastOp.vehicleId, id) > lastOp.radiusKm * 1000
          /\ id \in BoundingBoxQuery(vehicles[lastOp.vehicleId].location.latitude,
                                     vehicles[lastOp.vehicleId].location.longitude,
                                     lastOp.radiusKm)

\* The vehicles a sender has nearby: active, within radiusKm by haversine
\* distance, the sender excluded.
NearbyByDistance(senderVehicleId, radiusKm) ==
    {id \in DOMAIN vehicles \ {senderVehicleId} :
        /\ vehicles[id].status = "active"
        /\ StoredDistance(senderVehicleId, id) <= radiusKm * 1000}

\* The documents a call appended to v2v_messages.
Written == SubSeq(v2v_messages, lastOp.before + 1, Len(v2v_messages))

\* C2: a successful broadcast by a sender with M nearby vehicles (active,
\* within 50 km, sender excluded) adds exactly M+1 documents, one master and
\* one copy per nearby vehicle with that vehicle as targetVehicleId, and
\* returns broadcastCount = M.
C2_BroadcastWritesMPlusOne ==
    (/\ lastOp.op = "broadcast" /\ lastOp.success
     /\ lastOp.vehicleId \in DOMAIN vehicles) =>
        LET M == NearbyByDistance(lastOp.vehicleId, BroadcastRadius)
        IN  /\ Len(Written) = Cardinality(M) + 1
            /\ lastOp.count = Cardinality(M)
            /\ "targetVehicleId" \notin DOMAIN Written[1]
            /\ \A id \in M : \E i \in 2..Len(Written) :
                   Written[i].targetVehicleId = id

\* What the broadcast does write: one master and one copy per vehicle that
\* getNearbyVehicles returns for the sender (none when the sender has no
\* document), and broadcastCount is the number of copies.
BroadcastWritesOnePerQueryResult ==
    (lastOp.op = "broadcast" /\ lastOp.success /\ lastOp.nearby) =>
        LET found == getNearbyVehicles(lastOp.vehicleId, BroadcastRadius).data
        IN  /\ Len(Written) = Cardinality(found) + 1
            /\ lastOp.count = Cardinality(found)
            /\ "targetVehicleId" \notin DOMAIN Written[1]
            /\ \A i \in 2..Len(Written) : Written[i].targetVehicleId \in found
            /\ \A id \in found : \E i \in 2..Len(Written) :
                   Written[i].targetVehicleId = id


(***************************************************************************)
(* Vehicle status: the clock, getVehicleStatus and the every-minute sweep  *)
(* updateVehicleStatus (SpecStatus).                                       *)
(***************************************************************************)

\* The clock advances in steps of TimeStep minutes up to MaxTime: the elapsed
\* times 0, 5, 10, ..., 35 cover both thresholds, either side of each.
TimeStep == 5
MaxTime == 35

\* The most updateVehicleStatus runs awaiting their batch.commit() at once.
MaxSweeps == 2

\* The vehicles of this specification.
StatusIds == {1, 2}

NoReply == [vehicleId |-> 0, success |-> FALSE]

\* getVehicleStatus with the comparison at ten minutes inclusive (a mutant).
getVehicleStatus_From10(vehicleId) ==
    IF vehicleId \notin DOMAIN vehicles
    THEN [vehicleId |-> vehicleId, success |-> FALSE]
    ELSE LET timeDiff == now - vehicles[vehicleId].lastSeen
             status == IF timeDiff > 30 THEN "inactive"
                       ELSE IF timeDiff >= 10 THEN "warning"
                       ELSE "active"
         IN  [vehicleId |-> vehicleId, success |-> TRUE, status |-> status,
              timeSinceLastSeen |-> timeDiff]

\* getVehicleStatus: the status is computed from now - lastSeen (minutes) and
\* overrides the stored one in the returned data.
getVehicleStatus(vehicleId) ==
    IF vehicleId \notin DOMAIN vehicles
    THEN [vehicleId |-> vehicleId, success |-> FALSE]
    ELSE LET timeDiff == now - vehicles[vehicleId].lastSeen
             status == IF timeDiff > 30 THEN "inactive"
                       ELSE IF timeDiff > 10 THEN "warning"
                       ELSE "active"
         IN  [vehicleId |-> vehicleId, success |-> TRUE, status |-> status,
              timeSinceLastSeen |-> timeDiff]

\* updateVehicleStatus up to its batch.commit(): the query for the vehicles
\* stored as 'active' and the batch of status updates built from the snapshot.
updateVehicleStatusBatch ==
    LET docs == {id \in DOMAIN vehicles : vehicles[id].status = "active"}
        newStatus(id) ==
            LET timeDiff == now - vehicles[id].lastSeen
            IN  IF timeDiff > 30 THEN "inactive"
                ELSE IF timeDiff > 10 THEN "warning"
                ELSE "active"
    IN  [id \in {d \in docs : newStatus(d) # vehicles[d].status} |->
            newStatus(id)]

\* The store after a batch of status updates committed.
CommitBatch(batch) ==
    [id \in DOMAIN vehicles |->
        IF id \in DOMAIN batch
        THEN [vehicles[id] EXCEPT !.status = batch[id]]
        ELSE vehicles[id]]

\* A sequence without its i-th element.
Remove(seq, i) ==
    SubSeq(seq, 1, i - 1) \o SubSeq(seq, i + 1, Len(seq))

StatusFrame == UNCHANGED <<jobVars, aggVars, httpVars, extVars>>

\* A minute (here: TimeStep minutes) passes.
Tick ==
    /\ now + TimeStep <= MaxTime
    /\ now' = now + TimeStep
    /\ statusReply' = NoReply
    /\ UNCHANGED <<v2vVars, sweep>>
    /\ StatusFrame

StatusRegister ==
    /\ \E id \in StatusIds : RegisterVehicle(id, PA)
    /\ statusReply' = NoReply
    /\ UNCHANGED <<now, sweep>>
    /\ StatusFrame

StatusUpdateLocation ==
    /\ \E id \in StatusIds : UpdateVehicleLocation(id, PA)
    /\ statusReply' = NoReply
    /\ UNCHANGED <<now, sweep>>
    /\ StatusFrame

\* GET /:vehicleId/status.
GetVehicleStatus ==
    /\ \E id \in StatusIds : statusReply' = getVehicleStatus(id)
    /\ UNCHANGED <<v2vVars, now, sweep>>
    /\ StatusFrame

\* A cron tick of updateVehicleStatus: the run reads the active vehicles and,
\* when it has updates, goes on to await batch.commit().
SweepQuery ==
    /\ Len(sweep) < MaxSweeps
    /\ LET batch == updateVehicleStatusBatch
       IN  sweep' = IF DOMAIN batch = {} THEN sweep ELSE Append(sweep, batch)
    /\ statusReply' = NoReply
    /\ UNCHANGED <<v2vVars, now>>
    /\ StatusFrame

\* The batch.commit() of a run resolves.
SweepCommit ==
    /\ \E i \in 1..Len(sweep) :
          /\ vehicles' = CommitBatch(sweep[i])
          /\ sweep' = Remove(sweep, i)
    /\ statusReply' = NoReply
    /\ UNCHANGED <<v2v_messages, lastOp, now>>
    /\ StatusFrame

InitStatus ==
    /\ vehicles = <<>>
    /\ v2v_messages = <<>>
    /\ lastOp = NoOp
    /\ StatusAtRest /\ JobAtRest /\ AggAtRest /\ HttpAtRest /\ ExtAtRest

NextStatus ==
    \/ Tick \/ StatusRegister \/ StatusUpdateLocation \/ GetVehicleStatus
    \/ SweepQuery \/ SweepCommit

SpecStatus == InitStatus /\ [][NextStatus]_vars

\* The cron schedule fires the sweep every minute, the store answers, and time
\* passes.
FairSpecStatus ==
    /\ SpecStatus
    /\ WF_vars(Tick) /\ WF_vars(SweepQuery) /\ WF_vars(SweepCommit)

\* Minutes since the vehicle was last seen.
Elapsed(id) == now - vehicles[id].lastSeen

\* C3 (as amended): getVehicleStatus returns 'active' up to and including 10
\* minutes since lastSeen, 'warning' above 10 and up to and including 30
\* minutes, 'inactive' above 30 minutes, whatever the stored status is.
C3_StatusFromElapsed ==
    statusReply.success =>
        LET e == Elapsed(statusReply.vehicleId)
        IN  /\ e <= 10 => statusReply.status = "active"
            /\ (e > 10 /\ e <= 30) => statusReply.status = "warning"
            /\ e > 30 => statusReply.status = "inactive"

\* C3 witness: exactly 10 minutes after lastSeen the reply says 'active' while
\* the stored status is 'warning'.
C3_Witness ==
    /\ statusReply.success
    /\ Elapsed(statusReply.vehicleId) = 10
    /\ statusReply.status = "active"
    /\ vehicles[statusReply.vehicleId].status = "warning"

\* C3 as stated: under 10 minutes 'active', 10 to 30 minutes 'warning' (the
\* boundaries 10 and 30 included), over 30 minutes 'inactive'.
C3_AsStated ==
    statusReply.success =>
        LET e == Elapsed(statusReply.vehicleId)
        IN  /\ e < 10 => statusReply.status = "active"
            /\ (e >= 10 /\ e <= 30) => statusReply.status = "warning"
            /\ e > 30 => statusReply.status = "inactive"

\* C4: under the sweep, once more than 30 minutes have passed since lastSeen
\* the stored status of a vehicle that gets no further update eventually
\* becomes 'inactive'.
C4_EventuallyInactive ==
    \A id \in StatusIds :
        (id \in DOMAIN vehicles /\ Elapsed(id) > 30)
            ~> (/\ id \in DOMAIN vehicles
                /\ (vehicles[id].status = "inactive" \/ Elapsed(id) <= 30))


(***************************************************************************)
(* Text messages with AI enhancement (SpecMsg).                            *)
(***************************************************************************)

\* How the call to the generative model ends: no API key configured or the
\* call throws; a JSON reply with or without an enhancedMessage; a reply that
\* holds no JSON.
AiFailures == {"no_api_key", "model_error"}
AiReplies == AiFailures \cup {"json", "json_without_message", "text"}

\* geminiService.enhanceV2VMessage.
enhanceV2VMessage(originalMessage, aiReply) ==
    CASE aiReply \in AiFailures ->
            [success |-> FALSE, error |-> aiReply]
      [] aiReply = "json" ->
            [success |-> TRUE, enhancedMessage |-> "enhanced by ai",
             insights |-> "insights"]
      [] aiReply = "json_without_message" ->
            [success |-> TRUE, enhancedMessage |-> originalMessage,
             insights |-> "insights"]
      [] aiReply = "text" ->
            [success |-> TRUE, enhancedMessage |-> "reply text",
             insights |-> "AI-enhanced message"]

\* The vehicles collection after update() of a sender's lastActivity, and
\* whether the update resolved: update() of a missing document throws.
UpdateLastActivity(senderVehicleId) ==
    IF senderVehicleId \in DOMAIN vehicles
    THEN [ok |-> TRUE,
          vehicles |-> [vehicles EXCEPT ![senderVehicleId] =
                           [lastActivity |-> now] @@ @]]
    ELSE [ok |-> FALSE, vehicles |-> vehicles]

\* sendV2VMessage: add() of the message, then the sender's lastActivity.
sendV2VMessage(senderVehicleId, messageData) ==
    LET message == [timestamp |-> now, status |-> "sent"] @@ messageData
                       @@ [senderVehicleId |-> senderVehicleId]
        upd == UpdateLastActivity(senderVehicleId)
    IN  [messages |-> Append(v2v_messages, message),
         vehicles |-> upd.vehicles,
         success |-> upd.ok]

\* sendV2VTextMessage: as sendV2VMessage, with type 'text'.
sendV2VTextMessage(senderVehicleId, messageData) ==
    LET message == [timestamp |-> now, status |-> "sent", type |-> "text"]
                       @@ messageData
                       @@ [senderVehicleId |-> senderVehicleId]
        upd == UpdateLastActivity(senderVehicleId)
    IN  [messages |-> Append(v2v_messages, message),
         vehicles |-> upd.vehicles,
         success |-> upd.ok]

\* processTextMessageWithAI: the two getVehicleInfo reads only feed the prompt.
processTextMessageWithAI(senderVehicleId, targetVehicleId, originalMessage, userId, aiReply) ==
    LET aiResponse == enhanceV2VMessage(originalMessage, aiReply)
        senderInfo == [vehicleId |-> senderVehicleId, userId |-> userId]
    IN  IF ~aiResponse.success
        THEN sendV2VTextMessage(senderVehicleId,
                 [targetVehicleId |-> targetVehicleId,
                  message |-> originalMessage,
                  type |-> "text", priority |-> "medium",
                  aiEnhanced |-> FALSE,
                  originalMessage |-> originalMessage,
                  senderInfo |-> senderInfo])
        ELSE sendV2VTextMessage(senderVehicleId,
                 [targetVehicleId |-> targetVehicleId,
                  message |-> aiResponse.enhancedMessage,
                  type |-> "text", priority |-> "medium",
                  aiEnhanced |-> TRUE,
                  originalMessage |-> originalMessage,
                  aiInsights |-> aiResponse.insights,
                  senderInfo |-> senderInfo])

\* The requests of this specification: vehicle 1 (whose document may be
\* missing) sends "hello" to vehicle 3, with the route's default type and
\* priority or with others.
MsgSenders == {1}
MsgTargets == {3}
MsgKinds == {[type |-> "info", priority |-> "medium"],
             [type |-> "emergency", priority |-> "urgent"]}

\* POST /:vehicleId/message.
SendMessage(vehicleId, targetVehicleId, message, kind, useAI, aiReply) ==
    LET result ==
            IF useAI
            THEN processTextMessageWithAI(vehicleId, targetVehicleId, message,
                                          "u1", aiReply)
            ELSE sendV2VMessage(vehicleId,
                     [targetVehicleId |-> targetVehicleId,
                      message |-> message,
                      type |-> kind.type, priority |-> kind.priority,
                      aiEnhanced |-> FALSE,
                      senderInfo |-> [vehicleId |-> vehicleId,
                                      userId |-> "u1"]])
    IN  /\ Len(result.messages) <= MaxMessages
        /\ v2v_messages' = result.messages
        /\ vehicles' = result.vehicles
        /\ lastOp' = [op |-> "message", vehicleId |-> vehicleId,
                      targetVehicleId |-> targetVehicleId,
                      message |-> message, kind |-> kind, useAI |-> useAI,
                      aiReply |-> IF useAI THEN aiReply ELSE Absent,
                      success |-> result.success,
                      status |-> IF result.success THEN 200 ELSE 500,
                      aiEnhanced |-> IF result.success THEN useAI ELSE Absent,
                      before |-> Len(v2v_messages)]

MsgFrame == UNCHANGED <<statusVars, jobVars, aggVars, httpVars, extVars>>

MsgSendWithAI ==
    /\ \E s \in MsgSenders, t \in MsgTargets, k \in MsgKinds, a \in AiReplies :
          SendMessage(s, t, "hello", k, TRUE, a)
    /\ MsgFrame

MsgSendPlain ==
    /\ \E s \in MsgSenders, t \in MsgTargets, k \in MsgKinds :
          SendMessage(s, t, "hello", k, FALSE, "text")
    /\ MsgFrame

MsgRegister ==
    /\ \E id \in VehicleIds : RegisterVehicle(id, PA)
    /\ MsgFrame

InitMsg ==
    /\ vehicles = <<>>
    /\ v2v_messages = <<>>
    /\ lastOp = NoOp
    /\ StatusAtRest /\ JobAtRest /\ AggAtRest /\ HttpAtRest /\ ExtAtRest

NextMsg == MsgRegister \/ MsgSendWithAI \/ MsgSendPlain

SpecMsg == InitMsg /\ [][NextMsg]_vars

\* C10: when the AI enhancement fails, exactly one document is stored, with
\* the original text as message and aiEnhanced false, and the operation
\* reports success.
C10_FallbackSendsOriginal ==
    (lastOp.op = "message" /\ lastOp.useAI /\ lastOp.aiReply \in AiFailures) =>
        /\ Len(Written) = 1
        /\ Written[1].message = lastOp.message
        /\ Written[1].aiEnhanced = FALSE
        /\ lastOp.success

\* What holds when the enhancement fails: the one document with the original
\* text is stored in every case, and success is reported exactly when the
\* sender's vehicle document exists.
FallbackStoresOriginal ==
    (lastOp.op = "message" /\ lastOp.useAI /\ lastOp.aiReply \in AiFailures) =>
        /\ Len(Written) = 1
        /\ Written[1].message = lastOp.message
        /\ Written[1].aiEnhanced = FALSE
        /\ lastOp.success <=> lastOp.vehicleId \in DOMAIN vehicles


(***************************************************************************)
(* The disaster-refresh job and its isRunning flag (SpecJob).  A run is one *)
(* invocation of updateDisasterData, by the five-minute cron tick or by    *)
(* refreshAllData; its awaits are the points where other runs interleave.  *)
(***************************************************************************)

\* The most invocations in one behaviour.
MaxRuns == 3

\* The numbers of records getAllDisasters may return.
DataCounts == {0, 2}

\* The check `if (this.isRunning)` never taken (a mutant).
AlreadyRunning_Never == FALSE

\* The check `if (this.isRunning)` at the top of updateDisasterData.
AlreadyRunning == isRunning

\* Where a run continues once updateDisasterData has returned: the cron
\* callback ends, refreshAllData goes on to generateAnalytics.
AfterUpdate(kind) == IF kind = "refresh" THEN "analytics" ELSE "done"

InUpdate == {"fetching", "adding", "caching"}

JobFrame == UNCHANGED <<v2vVars, statusVars, aggVars, httpVars, extVars>>

\* updateDisasterData is invoked: the check and the assignment of the flag run
\* without an await between them.
InvokeUpdate(kind) ==
    /\ Len(runs) < MaxRuns
    /\ IF AlreadyRunning
       THEN /\ runs' = Append(runs, [kind |-> kind, pc |-> AfterUpdate(kind),
                                     skipped |-> TRUE, called |-> FALSE,
                                     count |-> Absent, failed |-> "none"])
            /\ UNCHANGED isRunning
       ELSE /\ isRunning' = TRUE
            /\ runs' = Append(runs, [kind |-> kind, pc |-> "fetching",
                                     skipped |-> FALSE, called |-> TRUE,
                                     count |-> Absent, failed |-> "none"])
    /\ UNCHANGED <<disaster_updates, cache>>

CronUpdate == InvokeUpdate("cron") /\ JobFrame

RefreshAllData == InvokeUpdate("refresh") /\ JobFrame

\* A run that leaves without `finally` when the aggregator fails (a mutant).
AggregatorSettles_KeepsFlag ==
    /\ \E i \in 1..Len(runs) :
          /\ runs[i].pc = "fetching"
          /\ \/ \E n \in DataCounts :
                   runs' = [runs EXCEPT ![i].pc = "adding", ![i].count = n]
             \/ runs' = [runs EXCEPT ![i].pc = AfterUpdate(runs[i].kind),
                                     ![i].failed = "aggregator"]
    /\ UNCHANGED <<isRunning, disaster_updates, cache>>
    /\ JobFrame

\* await disasterService.getAllDisasters() settles: success with some records,
\* success:false, or a rejection.  Unless it succeeded, the run leaves through
\* `finally`.
AggregatorSettles ==
    /\ \E i \in 1..Len(runs) :
          /\ runs[i].pc = "fetching"
          /\ \/ \E n \in DataCounts :
                   /\ runs' = [runs EXCEPT ![i].pc = "adding",
                                           ![i].count = n]
                   /\ UNCHANGED isRunning
             \/ /\ runs' = [runs EXCEPT ![i].pc = AfterUpdate(runs[i].kind),
                                        ![i].failed = "aggregator"]
                /\ isRunning' = FALSE
    /\ UNCHANGED <<disaster_updates, cache>>
    /\ JobFrame

\* await collection('disaster_updates').add(...) settles.
AddSettles ==
    /\ \E i \in 1..Len(runs) :
          /\ runs[i].pc = "adding"
          /\ \/ /\ disaster_updates' =
                       Append(disaster_updates,
                              [count |-> runs[i].count, writer |-> i])
                /\ runs' = [runs EXCEPT ![i].pc = "caching"]
                /\ UNCHANGED isRunning
             \/ /\ runs' = [runs EXCEPT ![i].pc = AfterUpdate(runs[i].kind),
                                        ![i].failed = "add"]
                /\ isRunning' = FALSE
                /\ UNCHANGED disaster_updates
    /\ UNCHANGED cache
    /\ JobFrame

\* await collection('cache').doc('disasters').set(...) settles; `finally`
\* clears the flag either way.  failed records the await that rejected (or
\* the aggregator's success:false), which ended the run.
CacheSettles ==
    /\ \E i \in 1..Len(runs) :
          /\ runs[i].pc = "caching"
          /\ \/ /\ cache' = [count |-> runs[i].count, writer |-> i]
                /\ runs' = [runs EXCEPT ![i].pc = AfterUpdate(runs[i].kind)]
             \/ /\ UNCHANGED cache
                /\ runs' = [runs EXCEPT ![i].pc = AfterUpdate(runs[i].kind),
                                        ![i].failed = "set"]
          /\ isRunning' = FALSE
    /\ UNCHANGED disaster_updates
    /\ JobFrame

\* refreshAllData's generateAnalytics returns (it touches neither the flag nor
\* the disaster collections).
AnalyticsReturns ==
    /\ \E i \in 1..Len(runs) :
          /\ runs[i].pc = "analytics"
          /\ runs' = [runs EXCEPT ![i].pc = "done"]
    /\ UNCHANGED <<isRunning, disaster_updates, cache>>
    /\ JobFrame

InitJob ==
    /\ vehicles = <<>>
    /\ v2v_messages = <<>>
    /\ lastOp = NoOp
    /\ StatusAtRest /\ JobAtRest /\ AggAtRest /\ HttpAtRest /\ ExtAtRest

NextJob ==
    \/ CronUpdate \/ RefreshAllData \/ AggregatorSettles \/ AddSettles
    \/ CacheSettles \/ AnalyticsReturns

SpecJob == InitJob /\ [][NextJob]_vars

\* C5: at most one execution of updateDisasterData is past the isRunning check
\* at any time, and an invocation that found the flag set never called the
\* aggregator and wrote neither disaster_updates nor cache/disasters.
C5_SingleUpdate ==
    /\ Cardinality({i \in 1..Len(runs) : runs[i].pc \in InUpdate}) <= 1
    /\ \A i \in 1..Len(runs) :
          runs[i].skipped =>
              /\ ~runs[i].called
              /\ \A k \in 1..Len(disaster_updates) :
                     disaster_updates[k].writer # i
              /\ cache.writer # i

\* C5 witness: a cron tick and a manual refresh both found the flag set while
\* a third run is between its store writes.
C5_Witness ==
    /\ \E i \in 1..Len(runs) : runs[i].pc = "caching"
    /\ \E i \in 1..Len(runs) : runs[i].skipped /\ runs[i].kind = "cron"
    /\ \E i \in 1..Len(runs) : runs[i].skipped /\ runs[i].kind = "refresh"


(***************************************************************************)
(* The aggregator getAllDisasters over the four feed adapters (SpecAgg).   *)
(***************************************************************************)

\* The adapters, in the order of the Promise.allSettled array.
FeedNames == <<"earthquake", "weather", "tsunami", "volcanic">>

\* The most records one feed returns.
MaxFeedLen == 2

\* The event times of the feeds.
TimeStamps == {1, 2}

\* A record as each adapter maps it: the earthquake and tsunami adapters set
\* `time`, the weather adapter sets startTime (and no time), the volcanic
\* adapter sets neither.  k tells the records of one feed apart (their id).
FeedRecords(name) ==
    CASE name = "earthquake" ->
            [id : 1..MaxFeedLen, type : {"earthquake"}, time : TimeStamps]
      [] name = "tsunami" ->
            [id : 1..MaxFeedLen, type : {"tsunami"}, time : TimeStamps]
      [] name = "weather" ->
            [id : 1..MaxFeedLen, type : {"weather"}, startTime : TimeStamps]
      [] name = "volcanic" ->
            [id : 1..MaxFeedLen, type : {"volcanic"}]

\* The lists a feed can return: up to MaxFeedLen records with the ids 1, 2, ...
FeedData(name) ==
    UNION {{d \in [1..n -> FeedRecords(name)] : \A i \in 1..n : d[i].id = i} :
             n \in 0..MaxFeedLen}

\* How one adapter's promise settles.
FeedOutcomes(name) ==
    {[status |-> "rejected"],
     [status |-> "fulfilled", value |-> [success |-> FALSE]]}
    \cup {[status |-> "fulfilled", value |-> [success |-> TRUE, data |-> d]] :
            d \in FeedData(name)}

Succeeded(outcome) ==
    outcome.status = "fulfilled" /\ outcome.value.success

\* The comparator (a, b) => new Date(b.time) - new Date(a.time) as sort() sees
\* it: a record without `time` gives an Invalid Date, the difference is NaN,
\* and sort() takes NaN as +0.
Compare(a, b) ==
    IF "time" \in DOMAIN a /\ "time" \in DOMAIN b THEN b.time - a.time ELSE 0

\* Array.prototype.sort of Node's V8 for arrays shorter than 64 elements: the
\* initial run is found (and reversed when strictly descending), the remaining
\* elements are inserted by binary insertion.
RECURSIVE RunEnd(_, _, _)
RunEnd(s, descending, k) ==
    IF k > Len(s) THEN Len(s)
    ELSE LET order == Compare(s[k], s[k - 1])
         IN  IF (descending /\ order >= 0) \/ (~descending /\ order < 0)
             THEN k - 1
             ELSE RunEnd(s, descending, k + 1)

Reverse(s) == [i \in 1..Len(s) |-> s[Len(s) + 1 - i]]

\* Binary search for the place of pivot among the first `right` elements
\* (left and right count elements before the place, as V8's indices do).
RECURSIVE InsertionPoint(_, _, _, _)
InsertionPoint(s, pivot, left, right) ==
    IF left >= right THEN left
    ELSE LET mid == left + ((right - left) \div 2)
         IN  IF Compare(pivot, s[mid + 1]) < 0
             THEN InsertionPoint(s, pivot, left, mid)
             ELSE InsertionPoint(s, pivot, mid + 1, right)

RECURSIVE BinaryInsertionSort(_, _)
BinaryInsertionSort(s, start) ==
    IF start >= Len(s) THEN s
    ELSE LET pivot == s[start + 1]
             pos == InsertionPoint(s, pivot, 0, start)
         IN  BinaryInsertionSort(
                 SubSeq(s, 1, pos) \o <<pivot>> \o SubSeq(s, pos + 1, start)
                     \o SubSeq(s, start + 2, Len(s)),
                 start + 1)

ArraySort(s) ==
    IF Len(s) < 2 THEN s
    ELSE LET descending == Compare(s[2], s[1]) < 0
             run == RunEnd(s, descending, 3)
             made == IF descending
                     THEN Reverse(SubSeq(s, 1, run)) \o SubSeq(s, run + 1, Len(s))
                     ELSE s
         IN  BinaryInsertionSort(made, run)

\* The data of a feed as getAllDisasters pushes it: nothing unless the promise
\* is fulfilled with success true.
Pushed(outcome) == IF Succeeded(outcome) THEN outcome.value.data ELSE <<>>

\* getAllDisasters with Promise.all in place of Promise.allSettled: one
\* rejection rejects the whole and the catch reports failure (a mutant).
getAllDisasters_AllOrNothing(settled) ==
    IF \E i \in 1..4 : settled[i].status = "rejected"
    THEN [success |-> FALSE, error |-> "rejected"]
    ELSE LET allDisasters == Pushed(settled[1]) \o Pushed(settled[2])
                                 \o Pushed(settled[3]) \o Pushed(settled[4])
         IN  [success |-> TRUE, data |-> ArraySort(allDisasters),
              count |-> Len(allDisasters)]

\* getAllDisasters, given how the four promises settled.
getAllDisasters(settled) ==
    LET allDisasters == Pushed(settled[1]) \o Pushed(settled[2])
                            \o Pushed(settled[3]) \o Pushed(settled[4])
    IN  [success |-> TRUE, data |-> ArraySort(allDisasters),
         count |-> Len(allDisasters)]

\* The ways the four promises of one call can settle.
Settlements ==
    {<<e, w, t, v>> : e \in FeedOutcomes("earthquake"),
                      w \in FeedOutcomes("weather"),
                      t \in FeedOutcomes("tsunami"),
                      v \in FeedOutcomes("volcanic")}

\* The call of getAllDisasters returns, the feeds having settled.
GetAllDisasters ==
    /\ aggResult = NoResult
    /\ aggResult' = getAllDisasters(feeds)
    /\ UNCHANGED <<v2vVars, statusVars, jobVars, httpVars, extVars, feeds>>

InitAgg ==
    /\ vehicles = <<>>
    /\ v2v_messages = <<>>
    /\ lastOp = NoOp
    /\ StatusAtRest /\ JobAtRest /\ HttpAtRest /\ ExtAtRest
    /\ feeds \in Settlements
    /\ aggResult = NoResult

NextAgg == GetAllDisasters

SpecAgg == InitAgg /\ [][NextAgg]_vars

\* The records of a list, as a set (records of one type differ in their id).
Records(list) == {list[i] : i \in 1..Len(list)}

\* The feeds of the call that failed.
FailedFeeds == {i \in 1..Len(feeds) : ~Succeeded(feeds[i])}

\* The list getAllDisasters returned (empty while it has not, or failed).
Returned == IF "data" \in DOMAIN aggResult THEN aggResult.data ELSE <<>>

\* C6: whichever feeds reject or report success:false, the result is
\* success:true and its data holds exactly the records of the other feeds,
\* none lost and none duplicated.
C6_UnionOfSucceeded ==
    aggResult # NoResult =>
        /\ aggResult.success
        /\ "data" \in DOMAIN aggResult
        /\ Records(aggResult.data) =
              UNION {Records(Pushed(feeds[i])) : i \in 1..4}
        /\ \A i \in 1..4 : Succeeded(feeds[i]) =>
              Records(feeds[i].value.data) \subseteq Records(aggResult.data)
        /\ \A i \in FailedFeeds, j \in 1..Len(aggResult.data) :
              aggResult.data[j].type # FeedNames[i]
        /\ \A j, k \in 1..Len(aggResult.data) :
              aggResult.data[j] = aggResult.data[k] => j = k
        /\ aggResult.count = Len(aggResult.data)

\* C6 witness: exactly one feed failed and each of the other three returned
\* records.
C6_Witness ==
    /\ aggResult # NoResult
    /\ Cardinality(FailedFeeds) = 1
    /\ \A i \in 1..4 : Succeeded(feeds[i]) => Len(feeds[i].value.data) > 0
    /\ aggResult.success

\* C7: the returned list is sorted descending by timestamp.  Stated here only
\* for the records that carry `time`: of two such records the earlier one in
\* the list is not the older one.
C7_SortedDescending ==
    \A i, j \in 1..Len(Returned) :
        (/\ i < j
         /\ "time" \in DOMAIN Returned[i]
         /\ "time" \in DOMAIN Returned[j])
            => Returned[i].time >= Returned[j].time

\* What holds of the order: a list all of whose records carry `time` comes
\* out sorted descending.
SortedWhenAllTimed ==
    (\A i \in 1..Len(Returned) : "time" \in DOMAIN Returned[i])
        => C7_SortedDescending


(***************************************************************************)
(* authenticateToken and the chat-history routes it guards (SpecHttp).     *)
(***************************************************************************)

\* The most requests received.
MaxRequests == 2

\* The ID tokens the identity provider accepts, with the uid each decodes to.
IdTokens == [tokA |-> "u1", tokB |-> "u2"]

\* req.user before authenticateToken has set it.
NoUser == [uid |-> Absent]

\* The Authorization headers sent, as the pieces of the header string (a
\* word, or one space); <<>> is a request without the header (undefined, as
\* falsy as the empty string).
Headers ==
    {<<>>,
     <<"Bearer">>,
     <<"Bearer", " ", "tokA">>,
     <<"Bearer", " ", "tokB">>,
     <<"Bearer", " ", "expired">>,
     <<"Bearer", " ", " ", "tokA">>}

\* authHeader.split(' '): the words between the spaces, an empty string
\* between two adjacent spaces.
RECURSIVE Split(_)
Split(header) ==
    IF header = <<>> THEN <<"">>
    ELSE IF Head(header) = " " THEN <<"">> \o Split(Tail(header))
    ELSE <<Head(header)>> \o Tail(Split(Tail(header)))

\* token = authHeader && authHeader.split(' ')[1]; Absent when it is falsy.
BearerToken(authHeader) ==
    IF authHeader = <<>> THEN Absent
    ELSE LET parts == Split(authHeader)
         IN  IF Len(parts) < 2 \/ parts[2] = "" THEN Absent ELSE parts[2]

\* verifyIdToken: the decoded token, or NoUser when the provider throws (the
\* token is not one it accepts, or the provider cannot be reached).
verifyIdToken(idToken, reachable) ==
    IF reachable /\ idToken \in DOMAIN IdTokens
    THEN [uid |-> IdTokens[idToken]]
    ELSE NoUser

\* optionalAuth in the place of authenticateToken: next() whatever the token
\* (a mutant).
authenticateToken_Optional(authHeader, reachable) ==
    LET token == BearerToken(authHeader)
    IN  [next |-> TRUE, status |-> 0,
         user |-> IF token = Absent THEN NoUser
                  ELSE verifyIdToken(token, reachable)]

\* authenticateToken: whether next() is called, the status answered when it
\* is not, and req.user.
authenticateToken(authHeader, reachable) ==
    LET token == BearerToken(authHeader)
    IN  IF token = Absent
        THEN [next |-> FALSE, status |-> 401, user |-> NoUser]
        ELSE LET decodedToken == verifyIdToken(token, reachable)
             IN  IF decodedToken = NoUser
                 THEN [next |-> FALSE, status |-> 403, user |-> NoUser]
                 ELSE [next |-> TRUE, status |-> 0, user |-> decodedToken]

\* The ownership test of DELETE /history/:id that never rejects (a mutant).
NotOwner_Never(userId, uid) == FALSE

\* doc.data().userId !== req.user.uid
NotOwner(userId, uid) == userId # uid

\* doc.exists for a chat_history id.
DocExists(id) == id \in 1..Len(chat_history) /\ chat_history[id].exists

\* The ids DELETE /history/:id is asked for.
DocIds == {1}

\* The chat_history collection when the server starts: empty, or one entry
\* written earlier.
ChatStores ==
    {<<>>} \cup {<<[userId |-> u, exists |-> TRUE]>> : u \in {"u1", "u2"}}

HttpFrame == UNCHANGED <<v2vVars, statusVars, jobVars, aggVars, extVars>>

\* A request arrives: POST /message or DELETE /history/:id.
Receive ==
    /\ Len(http) < MaxRequests
    /\ \E route \in {"post", "delete"}, header \in Headers :
          \E id \in IF route = "delete" THEN DocIds ELSE {0} :
              http' = Append(http, [route |-> route, header |-> header,
                                    id |-> id, pc |-> "auth", status |-> 0,
                                    user |-> NoUser, ran |-> FALSE,
                                    caught |-> FALSE])
    /\ UNCHANGED chat_history
    /\ HttpFrame

\* authenticateToken answers the request or hands it to the route handler.
Authenticate ==
    /\ \E i \in 1..Len(http), reachable \in BOOLEAN :
          /\ http[i].pc = "auth"
          /\ LET r == authenticateToken(http[i].header, reachable)
             IN  http' = [http EXCEPT
                    ![i].pc = IF r.next THEN "handler" ELSE "done",
                    ![i].status = r.status,
                    ![i].user = r.user,
                    ![i].ran = r.next]
    /\ UNCHANGED chat_history
    /\ HttpFrame

\* The handler of POST /message: validation, the AI reply, the history entry.
PostMessage ==
    /\ \E i \in 1..Len(http), valid \in BOOLEAN, aiOk \in BOOLEAN,
          storeOk \in BOOLEAN :
          /\ http[i].pc = "handler"
          /\ http[i].route = "post"
          /\ IF ~valid
             THEN /\ http' = [http EXCEPT ![i].pc = "done", ![i].status = 400]
                  /\ UNCHANGED chat_history
             ELSE IF http[i].user = NoUser \/ ~storeOk
             THEN /\ http' = [http EXCEPT ![i].pc = "done", ![i].status = 500,
                                          ![i].caught = TRUE]
                  /\ UNCHANGED chat_history
             ELSE IF ~aiOk
             THEN /\ http' = [http EXCEPT ![i].pc = "done", ![i].status = 500]
                  /\ UNCHANGED chat_history
             ELSE /\ chat_history' =
                        Append(chat_history, [userId |-> http[i].user.uid,
                                              exists |-> TRUE])
                  /\ http' = [http EXCEPT ![i].pc = "done", ![i].status = 200]
    /\ HttpFrame

\* The handler of DELETE /history/:id up to its delete: the document is read,
\* then 404, 403, or on to the delete.
DeleteRead ==
    /\ \E i \in 1..Len(http), storeOk \in BOOLEAN :
          /\ http[i].pc = "handler"
          /\ http[i].route = "delete"
          /\ IF ~storeOk
             THEN http' = [http EXCEPT ![i].pc = "done", ![i].status = 500,
                                       ![i].caught = TRUE]
             ELSE IF ~DocExists(http[i].id)
             THEN http' = [http EXCEPT ![i].pc = "done", ![i].status = 404]
             ELSE IF http[i].user = NoUser
             THEN http' = [http EXCEPT ![i].pc = "done", ![i].status = 500,
                                       ![i].caught = TRUE]
             ELSE IF NotOwner(chat_history[http[i].id].userId, http[i].user.uid)
             THEN http' = [http EXCEPT ![i].pc = "done", ![i].status = 403]
             ELSE http' = [http EXCEPT ![i].pc = "deleting"]
    /\ UNCHANGED chat_history
    /\ HttpFrame

\* The delete of DELETE /history/:id settles (deleting a document that is
\* gone already succeeds and changes nothing).
DeleteCommit ==
    /\ \E i \in 1..Len(http), storeOk \in BOOLEAN :
          /\ http[i].pc = "deleting"
          /\ IF storeOk
             THEN /\ chat_history' =
                        [chat_history EXCEPT ![http[i].id].exists = FALSE]
                  /\ http' = [http EXCEPT ![i].pc = "done", ![i].status = 200]
             ELSE /\ http' = [http EXCEPT ![i].pc = "done", ![i].status = 500,
                                          ![i].caught = TRUE]
                  /\ UNCHANGED chat_history
    /\ HttpFrame

InitHttp ==
    /\ vehicles = <<>>
    /\ v2v_messages = <<>>
    /\ lastOp = NoOp
    /\ StatusAtRest /\ JobAtRest /\ AggAtRest /\ ExtAtRest
    /\ chat_history \in ChatStores
    /\ http = <<>>

NextHttp ==
    \/ Receive \/ Authenticate \/ PostMessage \/ DeleteRead \/ DeleteCommit

SpecHttp == InitHttp /\ [][NextHttp]_vars

\* The DELETE requests whose handler reads the entry in this step and does
\* not throw.
Reading ==
    {i \in 1..Len(http) : /\ http[i].route = "delete"
                          /\ http[i].pc = "handler"
                          /\ http'[i].pc # "handler"
                          /\ ~http'[i].caught}

\* The entries that exist before a step and not after it.
Removed ==
    {id \in 1..Len(chat_history) :
        chat_history[id].exists /\ ~chat_history'[id].exists}

\* C8: a DELETE by an authenticated user who is not the entry's userId is
\* answered 403 and leaves chat_history as it is; a DELETE for an id that
\* does not exist is answered 404 and leaves chat_history as it is; and an
\* entry is removed only in the step of a DELETE request for it whose uid
\* equals its userId, which is answered 200.
C8_DeleteOnlyByOwner ==
    [][/\ \A i \in Reading :
            /\ http[i].user # NoUser
            /\ (/\ DocExists(http[i].id)
                /\ chat_history[http[i].id].userId # http[i].user.uid)
                  => /\ http'[i].pc = "done"
                     /\ http'[i].status = 403
                     /\ chat_history' = chat_history
            /\ ~DocExists(http[i].id)
                  => /\ http'[i].pc = "done"
                     /\ http'[i].status = 404
                     /\ chat_history' = chat_history
       /\ \A id \in Removed :
            \E i \in 1..Len(http) :
                /\ http[i].route = "delete"
                /\ http[i].id = id
                /\ http[i].pc # "done"
                /\ http[i].user.uid = chat_history[id].userId
                /\ http'[i].pc = "done"
                /\ http'[i].status = 200]_vars

\* The DELETE requests the handler has answered without a throw.
Answered ==
    {i \in 1..Len(http) : /\ http[i].route = "delete"
                          /\ http[i].ran
                          /\ http[i].pc = "done"
                          /\ ~http[i].caught}

\* C8 witness: a DELETE by an authenticated user for another user's entry has
\* been answered 403 by the handler, and the entry is still there.
C8_Witness ==
    \E i \in Answered :
        /\ http[i].status = 403
        /\ http[i].user # NoUser
        /\ DocExists(http[i].id)
        /\ chat_history[http[i].id].userId # http[i].user.uid

\* The headers that carry a token the identity provider accepts, with the
\* uid of the token.
Accepted ==
    {<<<<"Bearer", " ", "tokA">>, "u1">>, <<<<"Bearer", " ", "tokB">>, "u2">>}

\* The headers that carry no token at all.
Tokenless == {<<>>, <<"Bearer">>, <<"Bearer", " ", " ", "tokA">>}

\* C9: the handler of a guarded route runs only for a request whose bearer
\* token verifyIdToken has accepted; a request without a token is answered
\* 401, one whose token fails verification 403, in both cases without the
\* handler running; and chat_history changes only in a step of a request
\* whose handler runs.
C9_HandlerOnlyAfterVerify ==
    /\ [](\A i \in 1..Len(http) :
            /\ http[i].ran => <<http[i].header, http[i].user.uid>> \in Accepted
            /\ http[i].pc # "auth" =>
                  /\ http[i].header \in Tokenless
                        => ~http[i].ran /\ http[i].status = 401
                            /\ http[i].pc = "done"
                  /\ (http[i].header \notin Tokenless /\ ~http[i].ran)
                        => http[i].status = 403 /\ http[i].pc = "done"
                  /\ http[i].header = <<"Bearer", " ", "expired">>
                        => ~http[i].ran)
    /\ [][chat_history' # chat_history =>
            \E i \in 1..Len(http) :
                /\ http[i].ran
                /\ <<http[i].header, http[i].user.uid>> \in Accepted
                /\ http[i].pc # "done"
                /\ http'[i].pc = "done"]_vars

\* C9 witness: one request without a token has been answered 401 and one
\* with a token that fails verification 403, neither handler having run.
C9_Witness ==
    \E i, j \in 1..Len(http) :
        /\ http[i].pc = "done" /\ http[i].status = 401 /\ ~http[i].ran
        /\ http[i].header \in Tokenless
        /\ http[j].pc = "done" /\ http[j].status = 403 /\ ~http[j].ran
        /\ http[j].header = <<"Bearer", " ", "expired">>


(***************************************************************************)
(* The feed adapters: from a raw item of a feed to a disaster record       *)
(* (SpecFeed).  Wind speeds and temperatures are in tenths (m/s, degrees). *)
(***************************************************************************)

DisasterTypes == {"earthquake", "weather", "tsunami", "volcanic"}
Severities == {"low", "medium", "high", "critical"}

\* weather[0].main and weather[0].description as OpenWeatherMap sends them.
WeatherMains == {"Clear", "Thunderstorm", "Tornado", "Hurricane", "Blizzard"}
WeatherDescriptions ==
    {"clear sky", "Heavy intensity rain", "thunderstorm with heavy rain",
     "light thunderstorm"}

\* String.prototype.toLowerCase on the strings above.
toLowerCase(s) ==
    CASE s = "Clear" -> "clear"
      [] s = "Thunderstorm" -> "thunderstorm"
      [] s = "Tornado" -> "tornado"
      [] s = "Hurricane" -> "hurricane"
      [] s = "Blizzard" -> "blizzard"
      [] s = "Heavy intensity rain" -> "heavy intensity rain"
      [] OTHER -> s

\* String.prototype.includes(part) for the parts the service looks for
\* (case-sensitive: "Heavy intensity rain" holds no "heavy").
includes(s, part) ==
    CASE part = "heavy" ->
            s \in {"heavy intensity rain", "thunderstorm with heavy rain"}
      [] part = "thunderstorm" ->
            s \in {"thunderstorm", "Thunderstorm",
                   "thunderstorm with heavy rain", "light thunderstorm"}
      [] OTHER -> s = part

\* The raw readings: wind.speed may be missing.
WeatherData ==
    [speed : {0, 108, 109, 139, 140, 208, 209},
     temp : {-301, -300, -201, -200, -101, -100, 200, 350, 351, 400, 401,
             450, 451},
     humidity : {50, 90}, main : WeatherMains,
     description : WeatherDescriptions]
    \cup
    [temp : {-301, -300, -201, -200, -101, -100, 200, 350, 351, 400, 401,
             450, 451},
     humidity : {50, 90}, main : WeatherMains,
     description : WeatherDescriptions]

\* weatherData.wind?.speed || 0
WindSpeed(weatherData) ==
    IF "speed" \in DOMAIN weatherData THEN weatherData.speed ELSE 0

\* getWeatherSeverity with the high tier tested from 13.9 m/s inclusive and
\* before the critical tier (a mutant).
getWeatherSeverity_HighFirst(weatherData) ==
    LET windSpeed == WindSpeed(weatherData)
        temperature == weatherData.temp
    IN  IF windSpeed >= 139 \/ temperature > 400 \/ temperature < -200
        THEN "high"
        ELSE IF windSpeed > 108 \/ temperature > 350 \/ temperature < -100
        THEN "medium"
        ELSE "low"

\* DisasterService.getWeatherSeverity.
getWeatherSeverity(weatherData) ==
    LET windSpeed == WindSpeed(weatherData)
        temperature == weatherData.temp
        weatherCondition == toLowerCase(weatherData.main)
        description == toLowerCase(weatherData.description)
    IN  IF windSpeed > 208 \/ temperature > 450 \/ temperature < -300
        THEN "critical"
        ELSE IF includes(weatherCondition, "tornado")
                  \/ includes(weatherCondition, "hurricane")
        THEN "critical"
        ELSE IF windSpeed > 139 \/ temperature > 400 \/ temperature < -200
        THEN "high"
        ELSE IF includes(weatherCondition, "thunderstorm")
                  /\ includes(description, "heavy")
        THEN "high"
        ELSE IF windSpeed > 108 \/ temperature > 350 \/ temperature < -100
        THEN "medium"
        ELSE IF includes(weatherCondition, "thunderstorm")
                  \/ includes(weatherCondition, "blizzard")
        THEN "medium"
        ELSE "low"

\* DisasterService.isSevereWeather.
isSevereWeather(weatherData) ==
    LET windSpeed == WindSpeed(weatherData)
        temperature == weatherData.temp
        humidity == weatherData.humidity
        weatherCondition == toLowerCase(weatherData.main)
        description == toLowerCase(weatherData.description)
        severeConditions == {"thunderstorm", "tornado", "hurricane", "typhoon",
                             "blizzard", "snowstorm", "sandstorm", "duststorm"}
    IN  \/ windSpeed > 139
        \/ temperature > 400 \/ temperature < -200
        \/ \E condition \in severeConditions :
              includes(weatherCondition, condition)
                  \/ includes(description, condition)
        \/ includes(description, "heavy") \/ includes(description, "extreme")
        \/ (temperature > 300 /\ humidity > 80)

\* The raw items of the feeds: a USGS earthquake feature (tsunami flag 0 or
\* 1), a volcano feature (alert_level missing, green or raised), a weather
\* reading (current, or a forecast item with its dt).
Features ==
    [kind : {"earthquake"}, id : {"us1"}, mag : {45, 72}, time : {1, 2},
     tsunami : {0, 1}]
    \cup [kind : {"volcano"}, id : {"v1"}, alert_level : {"green", "orange"}]
    \cup [kind : {"volcano"}, id : {"v1"}]
    \cup [kind : {"weather"}, city : {"Tokyo"}, data : WeatherData]
    \cup [kind : {"forecast"}, city : {"Tokyo"}, dt : {3}, data : WeatherData]

\* getEarthquakes: the record made of a feature.
EarthquakeRecord(f) ==
    [id |-> f.id, type |-> "earthquake", magnitude |-> f.mag, time |-> f.time,
     tsunami |-> f.tsunami]

\* getTsunamiWarnings: the record made of a feature with the tsunami flag.
TsunamiRecord(f) ==
    [id |-> <<"tsunami", f.id>>, type |-> "tsunami", magnitude |-> f.mag,
     time |-> f.time, tsunami |-> TRUE]

\* getVolcanicActivity: the record made of a feature with a raised alert.
VolcanicRecord(f) ==
    [id |-> <<"volcano", f.id>>, type |-> "volcanic",
     alertLevel |-> f.alert_level]

\* getWeatherAlerts: the alert made of a severe reading.
WeatherRecord(f) ==
    [id |-> <<"weather", f.city>>, type |-> "weather",
     severity |-> getWeatherSeverity(f.data),
     startTime |-> IF f.kind = "forecast" THEN f.dt ELSE now,
     city |-> f.city, temperature |-> f.data.temp,
     windSpeed |-> WindSpeed(f.data), weatherCondition |-> f.data.main]

FeedFrame ==
    UNCHANGED <<v2vVars, statusVars, jobVars, aggVars, httpVars, feature,
                users, analytics, limiter,
                ai_analyses,
                emergency_plans,
                browser>>

GetEarthquakes ==
    /\ record = NoRecord
    /\ feature.kind = "earthquake"
    /\ record' = EarthquakeRecord(feature)
    /\ FeedFrame

GetTsunamiWarnings ==
    /\ record = NoRecord
    /\ feature.kind = "earthquake"
    /\ feature.tsunami = 1
    /\ record' = TsunamiRecord(feature)
    /\ FeedFrame

GetVolcanicActivity ==
    /\ record = NoRecord
    /\ feature.kind = "volcano"
    /\ "alert_level" \in DOMAIN feature
    /\ feature.alert_level # "green"
    /\ record' = VolcanicRecord(feature)
    /\ FeedFrame

GetWeatherAlerts ==
    /\ record = NoRecord
    /\ feature.kind \in {"weather", "forecast"}
    /\ isSevereWeather(feature.data)
    /\ record' = WeatherRecord(feature)
    /\ FeedFrame

InitFeed ==
    /\ vehicles = <<>>
    /\ v2v_messages = <<>>
    /\ lastOp = NoOp
    /\ StatusAtRest /\ JobAtRest /\ AggAtRest /\ HttpAtRest
    /\ feature \in Features
    /\ record = NoRecord
    /\ users = <<>>
    /\ analytics = <<>>
    /\ limiter = <<>>
    /\ ai_analyses = <<>>
    /\ emergency_plans = <<>>
    /\ browser = [authToken |-> "", href |-> "/"]

NextFeed ==
    \/ GetEarthquakes \/ GetTsunamiWarnings \/ GetVolcanicActivity
    \/ GetWeatherAlerts

SpecFeed == InitFeed /\ [][NextFeed]_vars

\* C11: every record an adapter produces carries a type of the fixed set, a
\* severity that is one of low, medium, high, critical, and a timestamp.
C11_CommonShape ==
    record # NoRecord =>
        /\ record.type \in DisasterTypes
        /\ "severity" \in DOMAIN record
        /\ record.severity \in Severities
        /\ \E field \in {"time", "timestamp", "startTime"} :
              field \in DOMAIN record

\* What holds of the shape: the type is always of the fixed set; only weather
\* records carry a severity; earthquake and tsunami records carry `time`,
\* weather records startTime, volcanic records no timestamp.
ShapeByType ==
    record # NoRecord =>
        /\ record.type \in DisasterTypes
        /\ "severity" \in DOMAIN record <=> record.type = "weather"
        /\ record.type = "weather" => record.severity \in Severities
        /\ "time" \in DOMAIN record <=> record.type \in {"earthquake", "tsunami"}
        /\ "startTime" \in DOMAIN record <=> record.type = "weather"

\* The tiers of getWeatherSeverity, each stated on its own.
Critical(d) ==
    \/ WindSpeed(d) > 208 \/ d.temp > 450 \/ d.temp < -300
    \/ d.main \in {"Tornado", "Hurricane"}

High(d) ==
    \/ WindSpeed(d) > 139 \/ d.temp > 400 \/ d.temp < -200
    \/ (d.main = "Thunderstorm"
        /\ d.description \in {"Heavy intensity rain",
                              "thunderstorm with heavy rain"})

Medium(d) ==
    \/ WindSpeed(d) > 108 \/ d.temp > 350 \/ d.temp < -100
    \/ d.main \in {"Thunderstorm", "Blizzard"}

\* C12: the severity of a weather alert is 'critical' if wind > 20.8 m/s or
\* temperature > 45 or < -30 or the condition is tornado/hurricane; otherwise
\* 'high' if wind > 13.9 or temperature > 40 or < -20 or a heavy thunderstorm;
\* otherwise 'medium' if wind > 10.8 or temperature > 35 or < -10 or
\* thunderstorm/blizzard; otherwise 'low'.  It depends on nothing else.
C12_SeverityTiers ==
    (record # NoRecord /\ record.type = "weather") =>
        LET d == feature.data
        IN  record.severity =
               IF Critical(d) THEN "critical"
               ELSE IF High(d) THEN "high"
               ELSE IF Medium(d) THEN "medium"
               ELSE "low"

\* C12 witness: wind speed 14 m/s with nothing more severe gives 'high'.
C12_Witness ==
    /\ record # NoRecord
    /\ record.type = "weather"
    /\ feature.data.speed = 140
    /\ feature.data.temp = 200
    /\ feature.data.main = "Clear"
    /\ record.severity = "high"


(***************************************************************************)
(* DELETE /api/auth/account next to the chat route that stores a user's    *)
(* records (SpecAccount).                                                  *)
(***************************************************************************)

\* The user documents POST /verify has created.
UserStores == {[uid \in {"u1", "u2"} |-> [uid |-> uid]]}

AccountFrame ==
    UNCHANGED <<v2vVars, statusVars, jobVars, aggVars, feature, record,
                analytics, limiter,
                ai_analyses,
                emergency_plans,
                browser>>

\* A request arrives with a token of one of the two users: POST /message or
\* DELETE /account.
AccountReceive ==
    /\ Len(http) < MaxRequests
    /\ \E route \in {"post", "account"},
          header \in {<<"Bearer", " ", "tokA">>, <<"Bearer", " ", "tokB">>} :
          http' = Append(http, [route |-> route, header |-> header, id |-> 0,
                                pc |-> "auth", status |-> 0, user |-> NoUser,
                                ran |-> FALSE, caught |-> FALSE])
    /\ UNCHANGED <<chat_history, users>>
    /\ AccountFrame

\* The handler of DELETE /account up to its second await: the user document
\* is deleted (delete() of a missing document succeeds).
DeleteUserDocument ==
    /\ \E i \in 1..Len(http), storeOk \in BOOLEAN :
          /\ http[i].pc = "handler"
          /\ http[i].route = "account"
          /\ IF storeOk
             THEN /\ users' = [u \in DOMAIN users \ {http[i].user.uid} |->
                                  users[u]]
                  /\ http' = [http EXCEPT ![i].pc = "deleteUser"]
             ELSE /\ http' = [http EXCEPT ![i].pc = "done", ![i].status = 500,
                                          ![i].caught = TRUE]
                  /\ UNCHANGED users
    /\ UNCHANGED chat_history
    /\ AccountFrame

\* auth.deleteUser(uid) settles and the handler answers.
DeleteAuthUser ==
    /\ \E i \in 1..Len(http), authOk \in BOOLEAN :
          /\ http[i].pc = "deleteUser"
          /\ http' = IF authOk
                     THEN [http EXCEPT ![i].pc = "done", ![i].status = 200]
                     ELSE [http EXCEPT ![i].pc = "done", ![i].status = 500,
                                       ![i].caught = TRUE]
    /\ UNCHANGED <<chat_history, users>>
    /\ AccountFrame

InitAccount ==
    /\ vehicles = <<>>
    /\ v2v_messages = <<>>
    /\ lastOp = NoOp
    /\ StatusAtRest /\ JobAtRest /\ AggAtRest
    /\ chat_history \in ChatStores
    /\ http = <<>>
    /\ feature = [kind |-> "none"]
    /\ record = NoRecord
    /\ users \in UserStores
    /\ analytics = <<>>
    /\ limiter = <<>>
    /\ ai_analyses = <<>>
    /\ emergency_plans = <<>>
    /\ browser = [authToken |-> "", href |-> "/"]

\* authenticateToken and POST /message are those of SpecHttp.
NextAccount ==
    \/ AccountReceive \/ Authenticate \/ PostMessage
    \/ DeleteUserDocument \/ DeleteAuthUser

SpecAccount == InitAccount /\ [][NextAccount]_vars

\* The DELETE /account requests answered 200 in this step.
Deleting ==
    {i \in 1..Len(http) : /\ http[i].route = "account"
                          /\ http[i].pc # "done"
                          /\ http'[i].pc = "done"
                          /\ http'[i].status = 200}

\* C13: when DELETE /account answers 200, no user document for the uid
\* exists and no chat_history entry of that user remains.
C13_AccountDataGone ==
    [][\A i \in Deleting :
          /\ http[i].user.uid \notin DOMAIN users'
          /\ \A id \in 1..Len(chat_history') :
                chat_history'[id].exists
                    => chat_history'[id].userId # http[i].user.uid]_vars

\* What holds: the user document is gone when DELETE /account answers 200,
\* and the request leaves chat_history as it was.
AccountDocumentGone ==
    [][\A i \in Deleting :
          /\ http[i].user.uid \notin DOMAIN users'
          /\ chat_history' = chat_history]_vars


(***************************************************************************)
(* The validated routes behind authenticateToken: the chat routes POST     *)
(* /message, /analyze-disaster, /emergency-plan, GET /history and DELETE   *)
(* /history/:id, and POST /api/v2v/register (SpecRoutes).  Each action is  *)
(* one request of a user whose token has been verified; http holds the     *)
(* last request with its response.                                         *)
(***************************************************************************)

\* The most requests in one behaviour, and the last tick of the clock.
MaxChatRequests == 3
MaxChatTime == 1

ChatUsers == {"u1", "u2"}

\* A request body or query without any field.
NoFields == <<>>

\* The bodies sent to POST /message: message missing, empty or given;
\* context missing, an object, or a string.
MessageBodies ==
    {NoFields} \cup [message : {"", "hi"}]
    \cup [message : {"", "hi"}, context : {"object", "string"}]

\* The bodies sent to POST /analyze-disaster.
AnalyzeBodies == {NoFields} \cup [disasterData : {"object", "string"}]

\* The bodies sent to POST /emergency-plan.
PlanBodies ==
    {NoFields, [disasterType |-> "flood"],
     [disasterType |-> "flood", location |-> "Tokyo", severity |-> ""],
     [disasterType |-> "flood", location |-> "Tokyo", severity |-> "high"]}

\* The queries sent to GET /history.
HistoryQueries ==
    {NoFields} \cup [limit : {"0", "1", "2"}]
    \cup [type : {"chat", "disaster_analysis", "other"}]
    \cup {[limit |-> "1", type |-> "chat"]}

\* The document ids DELETE /history/:id is asked for: the n-th document
\* written to a collection (auto-generated ids differ across collections).
HistoryIds ==
    [c : {"chat_history", "ai_analyses", "emergency_plans"}, n : {1, 2}]

\* The bodies sent to POST /api/v2v/register (coordinates in hundredths of a
\* degree).
RegisterBodies ==
    {NoFields}
    \cup [vehicleType : {"car"}, make : {"", "Kia"}, model : {"Rio"},
          year : {1899, 2020},
          location : {PA, [latitude |-> 9100, longitude |-> 17990]}]

\* new Date().getFullYear() on the server.
FullYear == 2025

\* parseInt on the limit strings; the default 20 is a number already.
parseInt(s) ==
    CASE s = "0" -> 0
      [] s = "1" -> 1
      [] s = "2" -> 2

\* notEmpty(): the field is there and not the empty string.
NotEmpty(fields, f) == f \in DOMAIN fields /\ fields[f] # ""

\* The fields of a request that fail a rule of the route (errors.array()).
ValidationErrors(route, fields) ==
    CASE route = "message" ->
            {f \in {"message"} : ~NotEmpty(fields, f)}
            \cup {f \in {"context"} :
                    f \in DOMAIN fields /\ fields[f] # "object"}
      [] route = "analyze" ->
            {f \in {"disasterData"} :
                f \notin DOMAIN fields \/ fields[f] # "object"}
      [] route = "plan" ->
            {f \in {"disasterType", "location", "severity"} :
                ~NotEmpty(fields, f)}
      [] route = "register" ->
            {f \in {"vehicleType", "make", "model"} : ~NotEmpty(fields, f)}
            \cup {f \in {"year"} :
                    \/ f \notin DOMAIN fields
                    \/ fields[f] \notin 1900..(FullYear + 1)}
            \cup {f \in {"location.latitude"} :
                    \/ "location" \notin DOMAIN fields
                    \/ fields.location.latitude \notin (-9000)..9000}
            \cup {f \in {"location.longitude"} :
                    \/ "location" \notin DOMAIN fields
                    \/ fields.location.longitude \notin (-18000)..18000}
      [] route = "history" ->
            {f \in {"limit"} :
                f \in DOMAIN fields /\ parseInt(fields[f]) \notin 1..100}
            \cup {f \in {"type"} :
                    /\ f \in DOMAIN fields
                    /\ fields[f] \notin {"chat", "disaster_analysis",
                                         "emergency_plan"}}
      [] OTHER -> {}

\* A handler that goes on whatever validationResult holds (a mutant).
Rejected_Never(route, fields) == FALSE

\* if (!errors.isEmpty()) return res.status(400)...
Rejected(route, fields) == ValidationErrors(route, fields) # {}

\* The response to a request, with what the handler did on the way.
Response(n, route, uid, fields, status, error) ==
    [n |-> n, route |-> route, uid |-> uid, fields |-> fields,
     status |-> status, error |-> error,
     details |-> IF status = 400 THEN ValidationErrors(route, fields) ELSE {},
     data |-> <<>>, ai |-> status # 400]

RequestNumber == IF http = <<>> THEN 1 ELSE http[1].n + 1

ChatFrame ==
    UNCHANGED <<v2v_messages, lastOp, sweep, statusReply, jobVars, aggVars,
                feature, record, users, analytics, limiter, browser>>

\* A POST route that asks the AI model and stores the answer in `collection`
\* under the given type; written is the collection after the add().
PostAndStore(route, uid, fields, aiOk, storeOk, collection, type) ==
    IF Rejected(route, fields)
    THEN [response |-> Response(RequestNumber, route, uid, fields, 400,
                                "Validation failed"),
          written |-> collection]
    ELSE IF ~aiOk
    THEN [response |-> Response(RequestNumber, route, uid, fields, 500,
                                "ai"),
          written |-> collection]
    ELSE IF ~storeOk
    THEN [response |-> Response(RequestNumber, route, uid, fields, 500,
                                "store"),
          written |-> collection]
    ELSE [response |-> Response(RequestNumber, route, uid, fields, 200,
                                Absent),
          written |-> Append(collection,
                             [userId |-> uid, type |-> type,
                              timestamp |-> now, exists |-> TRUE])]

\* POST /message.
ChatMessage ==
    /\ RequestNumber <= MaxChatRequests
    /\ \E uid \in ChatUsers, fields \in MessageBodies, aiOk \in BOOLEAN,
          storeOk \in BOOLEAN :
          LET r == PostAndStore("message", uid, fields, aiOk, storeOk,
                                chat_history, "chat")
          IN  /\ http' = <<r.response>>
              /\ chat_history' = r.written
    /\ UNCHANGED <<vehicles, now, ai_analyses, emergency_plans,
                browser>>
    /\ ChatFrame

\* POST /analyze-disaster.
AnalyzeDisaster ==
    /\ RequestNumber <= MaxChatRequests
    /\ \E uid \in ChatUsers, fields \in AnalyzeBodies, aiOk \in BOOLEAN,
          storeOk \in BOOLEAN :
          LET r == PostAndStore("analyze", uid, fields, aiOk, storeOk,
                                ai_analyses, "disaster_analysis")
          IN  /\ http' = <<r.response>>
              /\ ai_analyses' = r.written
    /\ UNCHANGED <<vehicles, now, chat_history, emergency_plans,
                browser>>
    /\ ChatFrame

\* POST /emergency-plan.
EmergencyPlan ==
    /\ RequestNumber <= MaxChatRequests
    /\ \E uid \in ChatUsers, fields \in PlanBodies, aiOk \in BOOLEAN,
          storeOk \in BOOLEAN :
          LET r == PostAndStore("plan", uid, fields, aiOk, storeOk,
                                emergency_plans, "emergency_plan")
          IN  /\ http' = <<r.response>>
              /\ emergency_plans' = r.written
    /\ UNCHANGED <<vehicles, now, chat_history, ai_analyses>>
    /\ ChatFrame

\* POST /api/v2v/register: v2vService.registerVehicle adds the vehicle with
\* status 'active' and lastSeen now; the answer is 201.
RegisterRoute ==
    /\ RequestNumber <= MaxChatRequests
    /\ \E uid \in ChatUsers, fields \in RegisterBodies, storeOk \in BOOLEAN :
          LET status == IF Rejected("register", fields) THEN 400
                        ELSE IF ~storeOk THEN 500
                        ELSE 201
              error == CASE status = 400 -> "Validation failed"
                         [] status = 500 -> "store"
                         [] OTHER -> Absent
              id == Cardinality(DOMAIN vehicles) + 1
          IN  /\ http' = <<[Response(RequestNumber, "register", uid, fields,
                                     status, error) EXCEPT !.ai = FALSE]>>
              /\ vehicles' =
                    IF status = 201
                    THEN vehicles @@
                         (id :> [location |-> fields.location,
                                 status |-> "active", lastSeen |-> now])
                    ELSE vehicles
    /\ UNCHANGED <<now, chat_history, ai_analyses, emergency_plans,
                browser>>
    /\ ChatFrame

\* A history query over every user's documents (a mutant).
HistoryQuery_AllUsers(uid, fields) ==
    {i \in 1..Len(chat_history) :
        /\ chat_history[i].exists
        /\ ("type" \in DOMAIN fields
                => chat_history[i].type = fields.type)}

\* The chat_history documents a history query of uid matches:
\* where('userId', '==', uid) and, for a type given, where('type', '==', type).
HistoryQuery(uid, fields) ==
    {i \in 1..Len(chat_history) :
        /\ chat_history[i].exists
        /\ chat_history[i].userId = uid
        /\ ("type" \in DOMAIN fields
                => chat_history[i].type = fields.type)}

\* orderBy('timestamp', 'desc'): document i comes before document j; equal
\* timestamps are ordered by document name, which is unrelated to the order
\* of creation (nameUp picks one of the two).
Before(i, j, nameUp) ==
    \/ chat_history[i].timestamp > chat_history[j].timestamp
    \/ /\ chat_history[i].timestamp = chat_history[j].timestamp
       /\ IF nameUp THEN i < j ELSE i > j

RECURSIVE Ordered(_, _)
Ordered(S, nameUp) ==
    IF S = {} THEN <<>>
    ELSE LET first == CHOOSE i \in S :
                          \A j \in S \ {i} : Before(i, j, nameUp)
         IN  <<first>> \o Ordered(S \ {first}, nameUp)

\* const { limit = 20, type } = req.query; ... .limit(parseInt(limit))
DefaultLimit == 20

Limit(fields) ==
    IF "limit" \in DOMAIN fields THEN parseInt(fields.limit)
    ELSE DefaultLimit

Shorter(a, b) == IF a < b THEN a ELSE b

\* snapshot.docs.map(doc => ({ id: doc.id, ...doc.data() }))
HistoryEntry(i) ==
    [id |-> [c |-> "chat_history", n |-> i],
     userId |-> chat_history[i].userId,
     type |-> chat_history[i].type,
     timestamp |-> chat_history[i].timestamp]

History(uid, fields, nameUp) ==
    LET ordered == Ordered(HistoryQuery(uid, fields), nameUp)
        limited == SubSeq(ordered, 1, Shorter(Limit(fields), Len(ordered)))
    IN  [k \in 1..Len(limited) |-> HistoryEntry(limited[k])]

\* GET /history.
GetHistory ==
    /\ RequestNumber <= MaxChatRequests
    /\ \E uid \in ChatUsers, fields \in HistoryQueries, nameUp \in BOOLEAN,
          storeOk \in BOOLEAN :
          http' = <<IF Rejected("history", fields)
                    THEN Response(RequestNumber, "history", uid, fields, 400,
                                  "Validation failed")
                    ELSE IF ~storeOk
                    THEN Response(RequestNumber, "history", uid, fields, 500,
                                  "Failed to fetch chat history")
                    ELSE [Response(RequestNumber, "history", uid, fields,
                                   200, Absent)
                          EXCEPT !.data = History(uid, fields, nameUp)]>>
    /\ UNCHANGED <<vehicles, now, chat_history, ai_analyses, emergency_plans,
                browser>>
    /\ ChatFrame

\* firestore.collection('chat_history').doc(id).get() finds a document.
HistoryDocExists(id) ==
    /\ id.c = "chat_history"
    /\ id.n \in 1..Len(chat_history)
    /\ chat_history[id.n].exists

\* DELETE /history/:id.
DeleteHistory ==
    /\ RequestNumber <= MaxChatRequests
    /\ \E uid \in ChatUsers, id \in HistoryIds, storeOk \in BOOLEAN :
          LET fields == [id |-> id]
              status == IF ~storeOk THEN 500
                        ELSE IF ~HistoryDocExists(id) THEN 404
                        ELSE IF chat_history[id.n].userId # uid THEN 403
                        ELSE 200
              error == CASE status = 500 ->
                                "Failed to delete chat history entry"
                         [] status = 404 -> "Chat history entry not found"
                         [] status = 403 ->
                                "Unauthorized to delete this entry"
                         [] OTHER -> Absent
          IN  /\ http' = <<Response(RequestNumber, "delete", uid, fields,
                                    status, error)>>
              /\ chat_history' =
                    IF status = 200
                    THEN [chat_history EXCEPT ![id.n].exists = FALSE]
                    ELSE chat_history
    /\ UNCHANGED <<vehicles, now, ai_analyses, emergency_plans,
                browser>>
    /\ ChatFrame

\* Time passes between two requests.
ChatClock ==
    /\ now < MaxChatTime
    /\ now' = now + 1
    /\ UNCHANGED <<vehicles, chat_history, http, ai_analyses, emergency_plans,
                browser>>
    /\ ChatFrame

InitRoutes ==
    /\ vehicles = <<>>
    /\ v2v_messages = <<>>
    /\ lastOp = NoOp
    /\ StatusAtRest /\ JobAtRest /\ AggAtRest /\ HttpAtRest /\ ExtAtRest

NextRoutes ==
    \/ ChatMessage
    \/ AnalyzeDisaster
    \/ EmergencyPlan
    \/ GetHistory
    \/ DeleteHistory
    \/ RegisterRoute
    \/ ChatClock

SpecRoutes == InitRoutes /\ [][NextRoutes]_vars


\* The collection a document id belongs to.
Collection(c) ==
    CASE c = "chat_history" -> chat_history
      [] c = "ai_analyses" -> ai_analyses
      [] c = "emergency_plans" -> emergency_plans

\* The record with this id is stored and was created by uid.
CreatedBy(id, uid) ==
    /\ id.n \in 1..Len(Collection(id.c))
    /\ Collection(id.c)[id.n].exists
    /\ Collection(id.c)[id.n].userId = uid

\* The step answers a request of the route.
Answers(route) ==
    /\ http' # http
    /\ http'[1].route = route
    /\ http'[1].status # 500

\* The stored records of uid of one type, in any of the three collections.
RecordsOfType(uid, type) ==
    {id \in [c : {"chat_history", "ai_analyses", "emergency_plans"},
             n : 1..MaxChatRequests] :
        CreatedBy(id, uid) /\ Collection(id.c)[id.n].type = type}

\* The step answers uid's request to delete the record id.
AsksDelete(id, uid) ==
    /\ Answers("delete")
    /\ http'[1].fields.id = id
    /\ http'[1].uid = uid

\* C14: every chat, analysis and emergency-plan record its creator asks
\* DELETE /history/:id to delete is deleted (answer 200, record gone), and
\* GET /history with a type filter lists the creator's records of that type
\* (as many as the limit allows).
C14_EveryRecordDeletable ==
    [][/\ \A id \in HistoryIds, uid \in ChatUsers :
            (AsksDelete(id, uid) /\ CreatedBy(id, uid))
               => (http'[1].status = 200 /\ ~CreatedBy(id, uid)')
       /\ (Answers("history") /\ http'[1].status = 200
              /\ "type" \in DOMAIN http'[1].fields)
          => Len(http'[1].data) =
                Shorter(Limit(http'[1].fields),
                        Cardinality(RecordsOfType(http'[1].uid,
                                                  http'[1].fields.type)))
      ]_vars

\* What holds instead: a record of 'chat_history' is deleted when its
\* creator asks for it.
ChatRecordDeletable ==
    [][\A id \in HistoryIds, uid \in ChatUsers :
          (AsksDelete(id, uid) /\ CreatedBy(id, uid)
              /\ id.c = "chat_history")
             => (http'[1].status = 200 /\ ~CreatedBy(id, uid)')]_vars


\* The last request was GET /history and was answered with a listing.
Listed == http # <<>> /\ http[1].route = "history" /\ http[1].status = 200

\* The entries of the last response.
Entries == http[1].data

\* The stored chat_history entries of the requester that pass the type filter
\* of the last request.
OwnEntries ==
    {i \in 1..Len(chat_history) :
        /\ chat_history[i].exists
        /\ chat_history[i].userId = http[1].uid
        /\ ("type" \in DOMAIN http[1].fields
                => chat_history[i].type = http[1].fields.type)}

\* C15: GET /history returns only chat_history entries whose userId is the
\* requester's uid, at most `limit` of them (20 when no limit is given),
\* newest first, leaving out only entries that are not newer than the ones
\* returned; no response of any route carries another user's entry.
C15_OwnHistoryOnly ==
    /\ http # <<>> =>
          \A k \in 1..Len(Entries) : Entries[k].userId = http[1].uid
    /\ Listed =>
          /\ \A k \in 1..Len(Entries) :
                /\ Entries[k].id.c = "chat_history"
                /\ Entries[k].id.n \in OwnEntries
                /\ Entries[k] = HistoryEntry(Entries[k].id.n)
          /\ \A k, l \in 1..Len(Entries) :
                k < l => /\ Entries[k].timestamp >= Entries[l].timestamp
                         /\ Entries[k].id # Entries[l].id
          /\ Len(Entries) =
                IF "limit" \in DOMAIN http[1].fields
                THEN Shorter(parseInt(http[1].fields.limit),
                             Cardinality(OwnEntries))
                ELSE Shorter(20, Cardinality(OwnEntries))
          /\ \A i \in OwnEntries, k \in 1..Len(Entries) :
                (\A l \in 1..Len(Entries) : Entries[l].id.n # i)
                   => chat_history[i].timestamp <= Entries[k].timestamp

\* A user is shown an entry of theirs while another user's entry that passes
\* the same filter is stored.
C15_Witness ==
    /\ Listed
    /\ Len(Entries) >= 1
    /\ \E i \in 1..Len(chat_history) :
          /\ chat_history[i].exists
          /\ chat_history[i].userId # http[1].uid
          /\ ("type" \in DOMAIN http[1].fields
                  => chat_history[i].type = http[1].fields.type)

\* A listing cut short by the limit: the older entry is left out.
LimitCuts ==
    /\ Listed
    /\ Len(Entries) < Cardinality(OwnEntries)
    /\ \E i \in OwnEntries : chat_history[i].timestamp < Entries[1].timestamp


\* The step answers a request that fails a validation rule of its route.
AnswersInvalid ==
    /\ http' # http
    /\ ValidationErrors(http'[1].route, http'[1].fields) # {}

\* C16: a request that fails any validation rule of its route is answered 400
\* 'Validation failed' with the list of all its validation errors, and the
\* handler writes no store and does not call the AI model.
C16_InvalidRejectedFirst ==
    [][AnswersInvalid =>
          /\ http'[1].status = 400
          /\ http'[1].error = "Validation failed"
          /\ http'[1].details =
                ValidationErrors(http'[1].route, http'[1].fields)
          /\ ~http'[1].ai
          /\ UNCHANGED <<vehicles, v2v_messages, chat_history, ai_analyses,
                         emergency_plans, users>>]_vars

\* An emergency-plan request with two failing rules has been answered with
\* both, while earlier requests had filled the stores.
C16_Witness ==
    /\ http # <<>>
    /\ http[1].route = "plan"
    /\ http[1].status = 400
    /\ http[1].details = {"location", "severity"}
    /\ Len(chat_history) >= 1
    /\ emergency_plans = <<>>
    /\ browser = [authToken |-> "", href |-> "/"]


(***************************************************************************)
(* cleanupOldData, the daily timer job (SpecCleanup).  Time is in days; a  *)
(* document is [timestamp, exists].  The job awaits three queries and one  *)
(* batch commit, and other writers run between its steps.                  *)
(***************************************************************************)

\* The most cleanup runs in one behaviour, and the last day of the clock.
MaxCleanups == 1
MaxCleanupDay == 92

\* Date.now() - 30 * 24 * 60 * 60 * 1000, and the 90 and 7 of the two other
\* cutoffs.
DisasterUpdateDays == 30
ChatHistoryDays == 90
V2VMessageDays == 7

CleanedCollections == {"disaster_updates", "chat_history", "v2v_messages"}

\* The days a stored document was written on: on both sides of each cutoff
\* of a cleanup on day 91.
DocumentDays(c) ==
    CASE c = "disaster_updates" -> {60, 61}
      [] c = "chat_history" -> {0, 1}
      [] c = "v2v_messages" -> {83, 84}

DocumentStores(c) ==
    {<<>>}
    \cup {<<[timestamp |-> t, exists |-> TRUE],
            [timestamp |-> t + 1, exists |-> TRUE]>> :
             t \in DocumentDays(c) \cap {0, 60, 83}}

\* The documents of a collection.
Stored(c) ==
    CASE c = "disaster_updates" -> disaster_updates
      [] c = "chat_history" -> chat_history
      [] c = "v2v_messages" -> v2v_messages

\* One cutoff for the three collections (a mutant).
Cutoff_SameForAll(c, at) == at - DisasterUpdateDays

\* The cutoff date of a collection's query made on day `at`.
Cutoff(c, at) ==
    CASE c = "disaster_updates" -> at - DisasterUpdateDays
      [] c = "chat_history" -> at - ChatHistoryDays
      [] c = "v2v_messages" -> at - V2VMessageDays

\* collection(c).where('timestamp', '<', cutoff).get()
OldDocuments(c, cutoff) ==
    {k \in 1..Len(Stored(c)) :
        Stored(c)[k].exists /\ Stored(c)[k].timestamp < cutoff}

\* The collection after the batch of deletes has been committed.
AfterDeletes(c, batch) ==
    [k \in 1..Len(Stored(c)) |->
        IF <<c, k>> \in batch
        THEN [Stored(c)[k] EXCEPT !.exists = FALSE]
        ELSE Stored(c)[k]]

CleanupFrame ==
    UNCHANGED <<vehicles, lastOp, sweep, statusReply, isRunning, cache,
                aggVars, http, extVars>>

\* The cron tick '0 2 * * *' calls cleanupOldData.
CronCleanup ==
    /\ Len(runs) < MaxCleanups
    /\ runs' = Append(runs, [kind |-> "cleanup", pc |-> "disaster_updates",
                             batch |-> {}, at |-> <<>>, committed |-> FALSE])
    /\ UNCHANGED <<now, disaster_updates, chat_history, v2v_messages>>
    /\ CleanupFrame

\* The collection queried after c, or the commit.
AfterQuery(c) ==
    CASE c = "disaster_updates" -> "chat_history"
      [] c = "chat_history" -> "v2v_messages"
      [] c = "v2v_messages" -> "commit"

\* One of the three awaited queries settles; its documents are added to the
\* batch.  A rejected query ends the run in the catch block.
CleanupQuery ==
    /\ \E i \in 1..Len(runs), queryOk \in BOOLEAN :
          LET c == runs[i].pc
          IN  /\ c \in CleanedCollections
              /\ runs' =
                    IF queryOk
                    THEN [runs EXCEPT
                            ![i].pc = AfterQuery(c),
                            ![i].at = (c :> now) @@ runs[i].at,
                            ![i].batch =
                                runs[i].batch
                                \cup {<<c, k>> :
                                        k \in OldDocuments(c, Cutoff(c, now))}]
                    ELSE [runs EXCEPT ![i].pc = "done"]
    /\ UNCHANGED <<now, disaster_updates, chat_history, v2v_messages>>
    /\ CleanupFrame

\* await batch.commit() settles: every delete of the batch or none.
CleanupCommit ==
    /\ \E i \in 1..Len(runs), commitOk \in BOOLEAN :
          /\ runs[i].pc = "commit"
          /\ runs' = [runs EXCEPT ![i].pc = "done",
                                  ![i].committed = commitOk]
          /\ IF commitOk
             THEN /\ disaster_updates' =
                        AfterDeletes("disaster_updates", runs[i].batch)
                  /\ chat_history' =
                        AfterDeletes("chat_history", runs[i].batch)
                  /\ v2v_messages' =
                        AfterDeletes("v2v_messages", runs[i].batch)
             ELSE UNCHANGED <<disaster_updates, chat_history, v2v_messages>>
    /\ UNCHANGED now
    /\ CleanupFrame

\* Another writer adds the first document of one of the collections, dated
\* now.
AddDocument ==
    /\ \E c \in CleanedCollections :
          /\ Stored(c) = <<>>
          /\ LET added == Append(Stored(c),
                                 [timestamp |-> now, exists |-> TRUE])
             IN  /\ disaster_updates' =
                       IF c = "disaster_updates" THEN added
                       ELSE disaster_updates
                 /\ chat_history' =
                       IF c = "chat_history" THEN added ELSE chat_history
                 /\ v2v_messages' =
                       IF c = "v2v_messages" THEN added ELSE v2v_messages
    /\ UNCHANGED <<now, runs>>
    /\ CleanupFrame

\* A user deletes a chat entry through DELETE /history/:id.
UserDeletesEntry ==
    /\ \E k \in 1..Len(chat_history) :
          /\ chat_history[k].exists
          /\ chat_history' = [chat_history EXCEPT ![k].exists = FALSE]
    /\ UNCHANGED <<now, runs, disaster_updates, v2v_messages>>
    /\ CleanupFrame

\* A day passes.
CleanupClock ==
    /\ now < MaxCleanupDay
    /\ now' = now + 1
    /\ UNCHANGED <<runs, disaster_updates, chat_history, v2v_messages>>
    /\ CleanupFrame

InitCleanup ==
    /\ vehicles = (1 :> [location |-> PA, status |-> "inactive",
                         lastSeen |-> 0])
    /\ v2v_messages \in DocumentStores("v2v_messages")
    /\ lastOp = NoOp
    /\ now = 91
    /\ sweep = <<>>
    /\ statusReply = [vehicleId |-> 0, success |-> FALSE]
    /\ isRunning = FALSE
    /\ runs = <<>>
    /\ disaster_updates \in DocumentStores("disaster_updates")
    /\ cache = [count |-> 0, writer |-> 0]
    /\ AggAtRest
    /\ chat_history \in DocumentStores("chat_history")
    /\ http = <<>>
    /\ feature = [kind |-> "none"]
    /\ record = NoRecord
    /\ users \in UserStores
    /\ analytics = <<[timestamp |-> 0]>>
    /\ limiter = <<>>
    /\ ai_analyses = <<[timestamp |-> 0, exists |-> TRUE]>>
    /\ emergency_plans = <<>>
    /\ browser = [authToken |-> "", href |-> "/"]

NextCleanup ==
    \/ CronCleanup
    \/ CleanupQuery
    \/ CleanupCommit
    \/ AddDocument
    \/ UserDeletesEntry
    \/ CleanupClock

SpecCleanup == InitCleanup /\ [][NextCleanup]_vars

\* The documents of a collection the step deletes.
Deleted(c) ==
    {k \in 1..Len(Stored(c)) : Stored(c)[k].exists /\ ~Stored(c)'[k].exists}

\* The step is the commit of run i, and the commit succeeds.
Commits(i) ==
    /\ i \in 1..Len(runs)
    /\ runs[i].pc = "commit"
    /\ runs'[i].pc = "done"
    /\ runs'[i].committed

\* The days a document of the collection is kept.
KeptDays(c) ==
    CASE c = "disaster_updates" -> 30
      [] c = "chat_history" -> 90
      [] c = "v2v_messages" -> 7

\* C17: a cleanup deletes exactly the disaster_updates documents older than
\* 30 days, the chat_history documents older than 90 days and the
\* v2v_messages documents older than 7 days (at the time of its query); it
\* changes no younger document and no document of another collection.
C17_ExactlyTheOld ==
    [][runs' # runs =>
          /\ UNCHANGED <<vehicles, users, analytics, cache, ai_analyses,
                         emergency_plans,
                browser>>
          /\ \A c \in CleanedCollections :
                /\ Len(Stored(c))' = Len(Stored(c))
                /\ \A k \in 1..Len(Stored(c)) :
                      Stored(c)'[k].timestamp = Stored(c)[k].timestamp
          /\ \A i \in 1..Len(runs), c \in CleanedCollections :
                Commits(i) =>
                   Deleted(c) =
                      {k \in 1..Len(Stored(c)) :
                          /\ Stored(c)[k].exists
                          /\ Stored(c)[k].timestamp
                                < runs[i].at[c] - KeptDays(c)}
          /\ (\A i \in 1..Len(runs) : ~Commits(i)) =>
                \A c \in CleanedCollections : Deleted(c) = {}]_vars

\* A cleanup has committed: in each collection the older document is gone
\* and the one that was exactly 30, 90 or 7 days old at the query is kept.
C17_Witness ==
    \E i \in 1..Len(runs) :
       /\ runs[i].pc = "done"
       /\ runs[i].committed
       /\ \A c \in CleanedCollections :
             /\ Len(Stored(c)) = 2
             /\ ~Stored(c)[1].exists
             /\ Stored(c)[2].exists
             /\ Stored(c)[2].timestamp = runs[i].at[c] - KeptDays(c)


(***************************************************************************)
(* The rate limiter mounted before the routes (SpecLimiter).  limiter maps *)
(* an IP to the requests counted in its current window and, of those, the  *)
(* ones passed on to the routes; http holds the last request.              *)
(***************************************************************************)

\* max: 100
RateLimitMax == 100

RateLimitMessage == "Too many requests from this IP, please try again later."

\* The most requests of one IP counted in one window.
MaxHits == 102

Ips == {"ip1", "ip2"}

\* One request more is let through (a mutant).
OverLimit_OneMore(hits) == hits > RateLimitMax + 1

\* The request that brought the count of its IP to `hits` is over the limit.
OverLimit(hits) == hits > RateLimitMax

LimiterFrame ==
    UNCHANGED <<v2vVars, statusVars, jobVars, aggVars, chat_history, feature,
                record, users, analytics, ai_analyses, emergency_plans,
                browser>>

\* app.use(limiter) ahead of the routes: the request is counted; over the
\* limit it is answered with the message (and the limiter's status 429),
\* otherwise next() hands it on to its route.
LimitedRequest ==
    /\ \E ip \in Ips :
          LET hits == limiter[ip].hits + 1
          IN  /\ hits <= MaxHits
              /\ IF OverLimit(hits)
                 THEN /\ limiter' = [limiter EXCEPT ![ip].hits = hits]
                      /\ http' = <<[ip |-> ip, hits |-> hits, status |-> 429,
                                    message |-> RateLimitMessage,
                                    routed |-> FALSE]>>
                 ELSE /\ limiter' =
                            [limiter EXCEPT
                                ![ip].hits = hits,
                                ![ip].routed = limiter[ip].routed + 1]
                      /\ http' = <<[ip |-> ip, hits |-> hits, status |-> 200,
                                    message |-> Absent, routed |-> TRUE]>>
    /\ LimiterFrame

\* windowMs: the window of an IP ends and its count starts again.
WindowEnds ==
    /\ \E ip \in Ips :
          /\ limiter[ip].hits > 0
          /\ limiter' = [limiter EXCEPT ![ip] = [hits |-> 0, routed |-> 0]]
    /\ UNCHANGED http
    /\ LimiterFrame

InitLimiter ==
    /\ vehicles = <<>>
    /\ v2v_messages = <<>>
    /\ lastOp = NoOp
    /\ StatusAtRest /\ JobAtRest /\ AggAtRest /\ HttpAtRest
    /\ feature = [kind |-> "none"]
    /\ record = NoRecord
    /\ users = <<>>
    /\ analytics = <<>>
    /\ limiter = [ip \in Ips |-> [hits |-> 0, routed |-> 0]]
    /\ ai_analyses = <<>>
    /\ emergency_plans = <<>>
    /\ browser = [authToken |-> "", href |-> "/"]

NextLimiter ==
    \/ LimitedRequest
    \/ WindowEnds

SpecLimiter == InitLimiter /\ [][NextLimiter]_vars

\* C18: in one window at most 100 requests of an IP reach a route; the 101st
\* and later ones are answered 'Too many requests' and reach none, and a
\* request of an IP that has not used up its 100 is let through whatever the
\* other IPs have sent.
C18_HundredPerWindow ==
    /\ \A ip \in Ips : limiter[ip].routed <= 100
    /\ http # <<>> =>
          /\ http[1].hits >= 101 =>
                /\ ~http[1].routed
                /\ http[1].message =
                      "Too many requests from this IP, please try again later."
          /\ http[1].hits <= 100 => http[1].routed

\* One IP is over its limit and the last request, the other IP's, was let
\* through.
C18_Witness ==
    /\ http # <<>>
    /\ http[1].routed
    /\ \E ip \in Ips \ {http[1].ip} :
          limiter[ip].hits > 100 /\ limiter[ip].routed = 100


(***************************************************************************)
(* The three timer jobs without a flag: generateAnalytics, cleanupOldData  *)
(* and updateVehicleStatus (SpecTimers).  runs holds the analytics and     *)
(* cleanup runs, sweep the vehicle-status runs awaiting their commit.      *)
(***************************************************************************)

\* The most analytics and cleanup invocations in one behaviour.
MaxTimerRuns == 3

\* A job that skips an invocation while a run of its kind is in progress (a
\* mutant).
TimerStarts_Guarded(kind) ==
    \A i \in 1..Len(runs) : runs[i].kind = kind => runs[i].pc = "done"

\* generateAnalytics and cleanupOldData start at `try`: nothing is tested
\* before the first await.
TimerStarts(kind) == TRUE

\* The run an invocation of the job adds.
TimerRun(kind, via, first) ==
    [kind |-> kind, via |-> via,
     pc |-> IF TimerStarts(kind) THEN first ELSE "done",
     skipped |-> ~TimerStarts(kind),
     batch |-> {}, at |-> <<>>, committed |-> FALSE]

TimerFrame ==
    UNCHANGED <<v2vVars, statusVars, isRunning, disaster_updates, aggVars,
                httpVars, feature, record, users, limiter, ai_analyses,
                emergency_plans,
                browser>>

\* The cron tick '0 * * * *' calls generateAnalytics.
CronAnalytics ==
    /\ Len(runs) < MaxTimerRuns
    /\ runs' = Append(runs, TimerRun("analytics", "cron", "generate"))
    /\ UNCHANGED <<analytics, cache>>
    /\ TimerFrame

\* refreshAllData calls generateAnalytics once its updateDisasterData has
\* returned.
RefreshAnalytics ==
    /\ Len(runs) < MaxTimerRuns
    /\ runs' = Append(runs, TimerRun("analytics", "refresh", "generate"))
    /\ UNCHANGED <<analytics, cache>>
    /\ TimerFrame

\* generateAnalytics whose set of cache/analytics is skipped when a run that
\* started later has written the document (a mutant).
AnalyticsSettles_NewestWins ==
    /\ \E i \in 1..Len(runs), ok \in BOOLEAN :
          /\ runs[i].kind = "analytics"
          /\ runs[i].pc \in {"generate", "add", "cache"}
          /\ runs' = [runs EXCEPT
                        ![i].pc = CASE ~ok -> "done"
                                    [] runs[i].pc = "generate" -> "add"
                                    [] runs[i].pc = "add" -> "cache"
                                    [] OTHER -> "done",
                        ![i].committed = ok /\ runs[i].pc = "cache"]
          /\ analytics' = IF ok /\ runs[i].pc = "add"
                          THEN Append(analytics, [writer |-> i])
                          ELSE analytics
          /\ cache' = IF ok /\ runs[i].pc = "cache" /\ i > cache.writer
                      THEN [count |-> Absent, writer |-> i]
                      ELSE cache
    /\ TimerFrame

\* An await of generateAnalytics settles: the analytics service, the add to
\* 'analytics', the set of cache/analytics.  A failure ends the run.  The
\* set replaces the document whatever it held; committed records that the
\* run's set succeeded.
AnalyticsSettles ==
    /\ \E i \in 1..Len(runs), ok \in BOOLEAN :
          /\ runs[i].kind = "analytics"
          /\ runs[i].pc \in {"generate", "add", "cache"}
          /\ runs' = [runs EXCEPT
                        ![i].pc = CASE ~ok -> "done"
                                    [] runs[i].pc = "generate" -> "add"
                                    [] runs[i].pc = "add" -> "cache"
                                    [] OTHER -> "done",
                        ![i].committed = ok /\ runs[i].pc = "cache"]
          /\ analytics' = IF ok /\ runs[i].pc = "add"
                          THEN Append(analytics, [writer |-> i])
                          ELSE analytics
          /\ cache' = IF ok /\ runs[i].pc = "cache"
                      THEN [count |-> Absent, writer |-> i]
                      ELSE cache
    /\ TimerFrame

\* The cron tick '0 2 * * *' calls cleanupOldData.
TimerCleanup ==
    /\ Len(runs) < MaxTimerRuns
    /\ runs' = Append(runs, TimerRun("cleanup", "cron", "disaster_updates"))
    /\ UNCHANGED <<analytics, cache>>
    /\ TimerFrame

InitTimers ==
    /\ vehicles = (1 :> [location |-> PA, status |-> "active",
                         lastSeen |-> 0])
    /\ v2v_messages = <<>>
    /\ lastOp = NoOp
    /\ now = 15
    /\ sweep = <<>>
    /\ statusReply = NoReply
    /\ JobAtRest /\ AggAtRest /\ HttpAtRest /\ ExtAtRest

NextTimers ==
    \/ CronAnalytics
    \/ RefreshAnalytics
    \/ AnalyticsSettles
    \/ TimerCleanup
    \/ CleanupQuery
    \/ CleanupCommit
    \/ SweepQuery
    \/ SweepCommit

SpecTimers == InitTimers /\ [][NextTimers]_vars

\* The runs of a job in progress.
InProgress(kind) ==
    {i \in 1..Len(runs) : runs[i].kind = kind /\ runs[i].pc # "done"}

\* C19: generateAnalytics, cleanupOldData and updateVehicleStatus never skip
\* an invocation, whatever is in progress, and never touch the isRunning
\* flag; two executions of one job can so be in progress at once.
C19_NoReentryGuard ==
    /\ \A i \in 1..Len(runs) : ~runs[i].skipped
    /\ isRunning = FALSE

\* Two executions of each job are in progress at once, the two of
\* generateAnalytics being the hourly one and the one of refreshAllData.
C19_Witness ==
    /\ \E i, j \in InProgress("analytics") :
          runs[i].via = "cron" /\ runs[j].via = "refresh"
    /\ Len(sweep) >= 2

\* Two cleanups are in progress at once.
TwoCleanups == Cardinality(InProgress("cleanup")) >= 2


(***************************************************************************)
(* The broadcast when a step fails (SpecV2V).                              *)
(***************************************************************************)

\* The last call was a broadcast.
Broadcast == lastOp.op = "broadcast"

\* The vehicles getNearbyVehicles gives for the sender of the last broadcast.
Found == getNearbyVehicles(lastOp.vehicleId, BroadcastRadius).data

\* The master message is stored, without a target.
MasterStored ==
    /\ Len(Written) >= 1
    /\ Written[1].senderVehicleId = lastOp.vehicleId
    /\ "targetVehicleId" \notin DOMAIN Written[1]

QueryFailedBroadcast ==
    /\ Broadcast
    /\ ~lastOp.nearby
    /\ lastOp.vehicleId \in DOMAIN vehicles
    /\ Found # {}


(***************************************************************************)
(* The stored status never comes back to 'active' (SpecStatus).            *)
(***************************************************************************)

\* The vehicles stored with a status other than 'active'.
NotActive == {id \in DOMAIN vehicles : vehicles[id].status # "active"}

\* The vehicles some nearby query or broadcast would reach now.
Reached ==
    UNION {getNearbyVehicles(ref, r).data : ref \in StatusIds, r \in Radii}

\* The step is a sweep whose query found status updates to write.
SweepVisits == Len(sweep') > Len(sweep)

Updating == {i \in 1..Len(runs) : runs[i].pc \in InUpdate}

\* The step is an invocation of updateDisasterData that is skipped.
Skips == Len(runs') > Len(runs) /\ runs'[Len(runs')].skipped

\* C22: isRunning is true exactly while an updateDisasterData run is between
\* setting it and its end, however the run ends; an invocation is skipped
\* only while such a run is in progress.
C22_FlagFollowsRun ==
    /\ [](isRunning <=> Updating # {})
    /\ [][Skips => Updating # {}]_vars

\* Two runs that set the flag ended in a failure, nothing written, and a
\* third invocation after them was not skipped.
C22_Witness ==
    /\ Len(runs) = 3
    /\ runs[1].called /\ runs[1].pc \notin InUpdate
    /\ runs[2].called /\ runs[2].pc \notin InUpdate
    /\ disaster_updates = <<>>
    /\ cache.writer = 0
    /\ runs[3].called /\ runs[3].pc = "fetching"
    /\ isRunning



(***************************************************************************)
(* Overlapping generateAnalytics runs and cache/analytics (SpecTimers).    *)
(* A run's index in runs is its start order.                               *)
(***************************************************************************)

\* The generateAnalytics runs whose set of cache/analytics succeeded.
Wrote ==
    {i \in 1..Len(runs) : runs[i].kind = "analytics" /\ runs[i].committed}

\* The run of S that started last.
Newest(S) == CHOOSE i \in S : \A j \in S : j <= i

\* C23 as stated: once no generateAnalytics run is in progress,
\* cache/analytics holds the result of the run that started last among
\* those that wrote it.
C23_AsStated ==
    (InProgress("analytics") = {} /\ Wrote # {})
        => cache.writer = Newest(Wrote)

\* The step in which run i of generateAnalytics has its set of
\* cache/analytics succeed.
Sets(i) ==
    /\ i <= Len(runs)
    /\ runs[i].kind = "analytics"
    /\ runs'[i].committed /\ ~runs[i].committed

\* C23: cache/analytics holds the result of the run whose set settled last,
\* whatever its start order: every successful set replaces the document,
\* nothing else changes it, and it is absent until a run has written it.
C23_LastSetWins ==
    /\ [](cache.writer = 0 <=> Wrote = {})
    /\ [](cache.writer # 0 => cache.writer \in Wrote)
    /\ [][/\ \A i \in 1..MaxTimerRuns : Sets(i) => cache'.writer = i
          /\ cache' # cache => \E i \in 1..MaxTimerRuns : Sets(i)]_vars

\* Every run has finished; the hourly run and the run of refreshAllData both
\* wrote the cache, and it holds the result of the one that started first.
C23_Witness ==
    /\ InProgress("analytics") = {}
    /\ \E i, j \in Wrote :
          /\ i < j
          /\ runs[i].via # runs[j].via
          /\ cache.writer = i



(***************************************************************************)
(* A send that reports failure (SpecMsg).                                  *)
(***************************************************************************)

\* C24: sendV2VMessage and sendV2VTextMessage leave v2v_messages as it was
\* whenever they return success:false; a send from a sender id that has no
\* vehicle document stores no message.
C24_FailedSendStoresNothing ==
    (lastOp.op = "message" /\ ~lastOp.success) =>
        Len(v2v_messages) = lastOp.before

\* What the code does: both functions add the message before they update the
\* sender's document, so a send from a sender without a document reports
\* failure and has stored its message.
FailedSendStoresMessage ==
    (lastOp.op = "message" /\ lastOp.vehicleId \notin DOMAIN vehicles) =>
        /\ ~lastOp.success
        /\ Len(Written) = 1
        /\ Written[1].senderVehicleId = lastOp.vehicleId



(***************************************************************************)
(* The response of POST /:vehicleId/message and the stored message         *)
(* (SpecMsg).                                                              *)
(***************************************************************************)

\* A send that answered 200.
Sent == lastOp.op = "message" /\ lastOp.success

\* C26: the aiEnhanced value of the response equals the aiEnhanced field of
\* the stored message, and the stored type and priority are the caller's
\* (default info and medium), with useAI true, the failed enhancement
\* included, and with useAI false.
C26_ResponseMatchesStored ==
    Sent =>
        /\ Len(Written) = 1
        /\ Written[1].aiEnhanced = lastOp.aiEnhanced
        /\ Written[1].type = lastOp.kind.type
        /\ Written[1].priority = lastOp.kind.priority

\* What the code does: without AI the three fields agree; with AI the stored
\* type is 'text' and the stored priority 'medium' whatever the caller sent,
\* and the response says aiEnhanced true also when the original text was
\* stored with aiEnhanced false.
StoredFieldsByPath ==
    Sent =>
        /\ Len(Written) = 1
        /\ lastOp.aiEnhanced = lastOp.useAI
        /\ ~lastOp.useAI =>
              /\ Written[1].aiEnhanced = FALSE
              /\ Written[1].type = lastOp.kind.type
              /\ Written[1].priority = lastOp.kind.priority
        /\ lastOp.useAI =>
              /\ Written[1].type = "text"
              /\ Written[1].priority = "medium"
              /\ Written[1].aiEnhanced = (lastOp.aiReply \notin AiFailures)



(***************************************************************************)
(* The frontend's ApiClient against authenticateToken (SpecClient).  The   *)
(* requests of http are the calls the client made; a call is "answered"    *)
(* once the response interceptor has run.                                  *)
(***************************************************************************)

\* The most API calls in one behaviour.
MaxCalls == 3

\* localStorage.getItem('authToken') when the page is loaded: nothing stored
\* (null, falsy as the empty string), a token the provider accepts, an
\* expired one, a malformed one.
StoredTokens == {"", "tokA", "expired", "garbage"}

\* The request interceptor: the Authorization header of a call.
RequestHeader(token) ==
    IF token = "" THEN <<>> ELSE <<"Bearer", " ", token>>

\* The response interceptor's error handler: on 401 it removes authToken
\* and sets window.location.href; every other status leaves the browser as
\* it is.
ResponseInterceptor(status) ==
    IF status = 401
    THEN [authToken |-> "", href |-> "/login"]
    ELSE browser

ClientFrame ==
    UNCHANGED <<v2vVars, statusVars, jobVars, aggVars, feature, record,
                users, analytics, limiter, ai_analyses, emergency_plans>>

\* ApiClient.post on a guarded route: the request interceptor reads the
\* token and the request is sent.
ApiCall ==
    /\ Len(http) < MaxCalls
    /\ \A i \in 1..Len(http) : http[i].pc = "answered"
    /\ http' = Append(http, [route |-> "post",
                             header |-> RequestHeader(browser.authToken),
                             id |-> 0, pc |-> "auth", status |-> 0,
                             user |-> NoUser, ran |-> FALSE,
                             caught |-> FALSE])
    /\ UNCHANGED <<chat_history, browser>>
    /\ ClientFrame

\* The response reaches the client: axios resolves a 2xx and rejects the
\* rest through the response interceptor's error handler.
ClientReceives ==
    /\ \E i \in 1..Len(http) :
          /\ http[i].pc = "done"
          /\ http' = [http EXCEPT ![i].pc = "answered"]
          /\ browser' = IF http[i].status = 200 THEN browser
                        ELSE ResponseInterceptor(http[i].status)
    /\ UNCHANGED chat_history
    /\ ClientFrame

InitClient ==
    /\ vehicles = <<>>
    /\ v2v_messages = <<>>
    /\ lastOp = NoOp
    /\ StatusAtRest /\ JobAtRest /\ AggAtRest
    /\ chat_history = <<>>
    /\ http = <<>>
    /\ feature = [kind |-> "none"]
    /\ record = NoRecord
    /\ users = <<>>
    /\ analytics = <<>>
    /\ limiter = <<>>
    /\ ai_analyses = <<>>
    /\ emergency_plans = <<>>
    /\ \E token \in StoredTokens :
          browser = [authToken |-> token, href |-> "/dashboard"]

NextClient == ApiCall \/ Authenticate \/ PostMessage \/ ClientReceives

SpecClient == InitClient /\ [][NextClient]_vars

\* The answered calls that carried a token the provider does not accept.
InvalidTokenCalls ==
    {i \in 1..Len(http) :
        /\ http[i].pc = "answered"
        /\ BearerToken(http[i].header) \notin DOMAIN IdTokens \cup {Absent}}

\* C25: once a call that carried an invalid or expired authToken has been
\* answered, the client has removed authToken and redirected to /login.
C25_InvalidTokenLogsOut ==
    InvalidTokenCalls # {} =>
        browser.authToken = "" /\ browser.href = "/login"

\* What the code does: authenticateToken answers a token it cannot verify
\* with 403, the interceptor acts on 401 only, so a stored token is never
\* removed and a client that holds one is never redirected.
StoredTokenKept ==
    /\ \A i \in InvalidTokenCalls : http[i].status = 403
    /\ (http # <<>> /\ http[1].header # <<>>) =>
          /\ browser.authToken = BearerToken(http[1].header)
          /\ browser.href = "/dashboard"

\* The only calls the interceptor acts on are those sent without a token.
UnauthorizedOnlyWithoutToken ==
    \A i \in 1..Len(http) : http[i].status = 401 => http[i].header = <<>>



(***************************************************************************)
(* updateDisasterData fed by getAllDisasters (SpecRefresh): the run's      *)
(* first await is the aggregator's call over the four feeds; feeds and     *)
(* aggResult hold the settlement and the result of the last run that got   *)
(* past that await.                                                        *)
(***************************************************************************)

\* The most runs of the job in one behaviour.
MaxRefreshes == 2

\* The settlements of the four feeds, each feed rejecting, reporting
\* success:false, or returning one record.
JobSettlements ==
    {s \in Settlements :
        \A i \in 1..4 :
            Succeeded(s[i]) =>
                /\ Len(s[i].value.data) = 1
                /\ \A k \in 1..Len(s[i].value.data) :
                      /\ "time" \in DOMAIN s[i].value.data[k]
                            => s[i].value.data[k].time = 1
                      /\ "startTime" \in DOMAIN s[i].value.data[k]
                            => s[i].value.data[k].startTime = 1}

\* What the await of getAllDisasters gives updateDisasterData: the result
\* built from the feeds, the result of its catch, or (rejected) nothing.
AggregatorOutcomes(settled) ==
    {getAllDisasters(settled),
     [success |-> FALSE, error |-> "caught"],
     [success |-> FALSE, rejected |-> TRUE]}

RefreshFrame == UNCHANGED <<v2vVars, statusVars, httpVars, extVars>>

\* The five-minute tick invokes updateDisasterData.
RefreshTick ==
    /\ Len(runs) < MaxRefreshes
    /\ InvokeUpdate("cron")
    /\ UNCHANGED aggVars
    /\ RefreshFrame

\* updateDisasterData that leaves out both writes when the list is empty (a
\* mutant).
FeedsSettle_SkipsEmpty ==
    /\ \E i \in 1..Len(runs), settled \in JobSettlements :
          \E disasterData \in AggregatorOutcomes(settled) :
              /\ runs[i].pc = "fetching"
              /\ feeds' = settled
              /\ aggResult' = disasterData
              /\ IF disasterData.success
                 THEN /\ runs' = [runs EXCEPT
                            ![i].pc = IF disasterData.count = 0
                                      THEN AfterUpdate(runs[i].kind)
                                      ELSE "adding",
                            ![i].count = disasterData.count]
                      /\ isRunning' = (disasterData.count # 0)
                 ELSE /\ runs' = [runs EXCEPT
                            ![i].pc = AfterUpdate(runs[i].kind),
                            ![i].failed = "aggregator"]
                      /\ isRunning' = FALSE
    /\ UNCHANGED <<disaster_updates, cache>>
    /\ RefreshFrame

\* The four feeds settle and await disasterService.getAllDisasters() gives
\* its result: on success the run goes on to its two writes, otherwise it
\* logs and leaves through `finally`.
FeedsSettle ==
    /\ \E i \in 1..Len(runs), settled \in JobSettlements :
          \E disasterData \in AggregatorOutcomes(settled) :
              /\ runs[i].pc = "fetching"
              /\ feeds' = settled
              /\ aggResult' = disasterData
              /\ IF disasterData.success
                 THEN /\ runs' = [runs EXCEPT
                            ![i].pc = "adding",
                            ![i].count = disasterData.count]
                      /\ UNCHANGED isRunning
                 ELSE /\ runs' = [runs EXCEPT
                            ![i].pc = AfterUpdate(runs[i].kind),
                            ![i].failed = "aggregator"]
                      /\ isRunning' = FALSE
    /\ UNCHANGED <<disaster_updates, cache>>
    /\ RefreshFrame

InitRefresh ==
    /\ vehicles = <<>>
    /\ v2v_messages = <<>>
    /\ lastOp = NoOp
    /\ StatusAtRest /\ JobAtRest /\ AggAtRest /\ HttpAtRest /\ ExtAtRest

NextRefresh == RefreshTick \/ FeedsSettle \/ AddSettles \/ CacheSettles

SpecRefresh == InitRefresh /\ [][NextRefresh]_vars


\* The runs that are past the await of getAllDisasters, and the last of them:
\* the run feeds and aggResult belong to.
Fetched ==
    {i \in 1..Len(runs) : runs[i].called /\ runs[i].pc # "fetching"}
LastFetched == CHOOSE i \in Fetched : \A j \in Fetched : j <= i

\* All four feeds of the last settlement failed.
AllFeedsFailed == feeds # <<>> /\ FailedFeeds = 1..4

\* The documents a run added to disaster_updates.
EntriesOf(i) ==
    {k \in 1..Len(disaster_updates) : disaster_updates[k].writer = i}

\* The run has left updateDisasterData.
Finished(i) == runs[i].pc \notin InUpdate

\* C27 as stated: a finished run left cache/disasters untouched only if
\* getAllDisasters reported success:false or threw.
C27_AsStated ==
    \A i \in Fetched :
        (i = LastFetched /\ Finished(i) /\ cache.writer # i)
            => ~aggResult.success

\* C27: when all four feeds fail getAllDisasters still returns success:true
\* with an empty list, and updateDisasterData adds an entry of count 0 to
\* disaster_updates and sets cache/disasters to count 0, replacing what it
\* held; a finished run has left the cache untouched exactly when
\* getAllDisasters reported success:false or threw, or one of the run's two
\* store writes rejected.
C27_EmptyResultOverwrites ==
    Fetched # {} =>
        LET i == LastFetched
        IN  /\ AllFeedsFailed =>
                 /\ getAllDisasters(feeds).success
                 /\ getAllDisasters(feeds).data = <<>>
                 /\ getAllDisasters(feeds).count = 0
            /\ (AllFeedsFailed /\ aggResult.success) => runs[i].count = 0
            /\ aggResult.success <=> runs[i].failed # "aggregator"
            /\ Finished(i) =>
                 /\ runs[i].failed = "none" =>
                       /\ Cardinality(EntriesOf(i)) = 1
                       /\ \A k \in EntriesOf(i) :
                             disaster_updates[k].count = runs[i].count
                       /\ cache = [count |-> runs[i].count, writer |-> i]
                 /\ cache.writer # i <=> runs[i].failed # "none"
                 /\ EntriesOf(i) = {} <=> runs[i].failed \in {"aggregator", "add"}

\* A run stored two records in the cache; in the next run all four feeds
\* failed, and the cache now holds count 0 and disaster_updates an entry of
\* count 0.
C27_Witness ==
    /\ Len(runs) = 2
    /\ Finished(2)
    /\ AllFeedsFailed
    /\ aggResult.success
    /\ \E k \in EntriesOf(1) : disaster_updates[k].count > 0
    /\ \E k \in EntriesOf(2) : disaster_updates[k].count = 0
    /\ cache = [count |-> 0, writer |-> 2]

\* All four feeds failed, getAllDisasters returned success:true, the add to
\* disaster_updates rejected, and the cache is as the run before left it.
AddFailedCacheKept ==
    /\ Len(runs) = 2
    /\ Finished(2)
    /\ AllFeedsFailed
    /\ aggResult.success
    /\ runs[2].failed = "add"
    /\ cache.writer = 1



(***************************************************************************)
(* generateDisasterAnalytics: the time filter, the summary and the trend   *)
(* (SpecAnalytics).  Times are in days, so a record's time is also its     *)
(* calendar date; lastOp holds what the call returned.                     *)
(***************************************************************************)

\* new Date() when the analytics are generated, and the days on which the
\* events of the feeds happened (the first lies outside a 7-day window).
AnalyticsNow == 10
EventDays == 2..5

\* The time ranges asked for.
TimeRanges == {"24h", "7d"}

\* A record of a feed on an event day, as its adapter maps it (see
\* FeedRecords).
DatedRecord(name, k, day) ==
    CASE name \in {"earthquake", "tsunami"} ->
            [id |-> k, type |-> name, time |-> day]
      [] name = "weather" -> [id |-> k, type |-> name, startTime |-> day]
      [] name = "volcanic" -> [id |-> k, type |-> name]

\* The lists a feed can return: up to n records.
DatedLists(name, n) ==
    UNION {{[k \in 1..m |-> DatedRecord(name, k, days[k])] :
               days \in [1..m -> EventDays]} : m \in 0..n}

\* How the four feeds settle: the earthquake and tsunami feeds with up to
\* MaxFeedLen records, the weather and volcanic feeds with at most one; the
\* earthquake feed may also reject.
AnalyticsSettlements ==
    {<<e, w, t, v>> :
        e \in {[status |-> "rejected"]} \cup
              {[status |-> "fulfilled", value |-> [success |-> TRUE, data |-> d]] :
                  d \in DatedLists("earthquake", MaxFeedLen)},
        w \in {[status |-> "fulfilled", value |-> [success |-> TRUE, data |-> d]] :
                  d \in DatedLists("weather", 1)},
        t \in {[status |-> "fulfilled", value |-> [success |-> TRUE, data |-> d]] :
                  d \in DatedLists("tsunami", MaxFeedLen)},
        v \in {[status |-> "fulfilled", value |-> [success |-> TRUE, data |-> d]] :
                  d \in DatedLists("volcanic", 1)}}

\* startTime of generateDisasterAnalytics: endTime less the range.
StartTime(timeRange, endTime) ==
    CASE timeRange = "24h" -> endTime - 1
      [] timeRange = "7d" -> endTime - 7
      [] timeRange = "30d" -> endTime - 30
      [] timeRange = "90d" -> endTime - 90
      [] OTHER -> endTime - 7

\* new Date(disaster.time) >= startTime: false for a record without `time`
\* (an Invalid Date compares false with everything).
InRange(disaster, startTime) ==
    "time" \in DOMAIN disaster /\ disaster.time >= startTime

\* generateSummary: total and byType (a type that never occurs has no key).
generateSummary(disasters) ==
    LET types == {disasters[i].type : i \in 1..Len(disasters)}
    IN  [total |-> Len(disasters),
         byType |-> [t \in types |->
                        Cardinality({i \in 1..Len(disasters) :
                                        disasters[i].type = t})]]

\* The keys of dailyData in insertion order: the dates of the records in the
\* order of their first occurrence in the list (date strings are not array
\* indices, so Object.values keeps insertion order).
RECURSIVE DailyKeys(_)
DailyKeys(disasters) ==
    IF disasters = <<>> THEN <<>>
    ELSE LET before == DailyKeys(SubSeq(disasters, 1, Len(disasters) - 1))
             date == disasters[Len(disasters)].time
         IN  IF \E k \in 1..Len(before) : before[k] = date
             THEN before
             ELSE Append(before, date)

\* Object.values(dailyData).map(d => d.total), for the keys given.
DailyTotals(disasters, keys) ==
    [k \in 1..Len(keys) |->
        Cardinality({i \in 1..Len(disasters) : disasters[i].time = keys[k]})]

RECURSIVE Sum(_)
Sum(values) == IF values = <<>> THEN 0 ELSE Head(values) + Sum(Tail(values))

\* calculateTrend: change = (secondAvg - firstAvg) / firstAvg * 100 against
\* 10 and -10, with the averages brought to the common denominator (every
\* value is at least 1).
calculateTrend(values) ==
    IF Len(values) < 2 THEN "stable"
    ELSE LET half == Len(values) \div 2
             firstHalf == SubSeq(values, 1, half)
             secondHalf == SubSeq(values, half + 1, Len(values))
             first == Sum(firstHalf) * Len(secondHalf)
             second == Sum(secondHalf) * Len(firstHalf)
         IN  IF 10 * (second - first) > first THEN "increasing"
             ELSE IF 10 * (second - first) < 0 - first THEN "decreasing"
             ELSE "stable"

\* analyzeTrends: the per-day totals and their trend.
analyzeTrends(disasters) ==
    LET keys == DailyKeys(disasters)
        totals == DailyTotals(disasters, keys)
    IN  [days |-> keys, totals |-> totals, trend |-> calculateTrend(totals)]

\* generateDisasterAnalytics, given what getAllDisasters returned.
generateDisasterAnalytics(timeRange, disasterData) ==
    LET startTime == StartTime(timeRange, now)
        filteredDisasters ==
            SelectSeq(disasterData.data, LAMBDA d : InRange(d, startTime))
    IN  [success |-> TRUE,
         data |-> [timeRange |-> timeRange,
                   period |-> [start |-> startTime, end |-> now],
                   summary |-> generateSummary(filteredDisasters),
                   trends |-> analyzeTrends(filteredDisasters)]]

\* A call of generateDisasterAnalytics: getAllDisasters, the analytics, and
\* saveAnalytics, which logs a failed add and goes on.
GenerateAnalytics ==
    /\ lastOp = NoOp
    /\ \E timeRange \in TimeRanges, saveOk \in BOOLEAN :
          LET disasterData == getAllDisasters(feeds)
              result == generateDisasterAnalytics(timeRange, disasterData)
          IN  /\ aggResult' = disasterData
              /\ lastOp' = [op |-> "analytics"] @@ result
              /\ analytics' = IF saveOk
                              THEN Append(analytics, result.data)
                              ELSE analytics
    /\ UNCHANGED <<vehicles, v2v_messages, statusVars, jobVars, feeds,
                   httpVars, feature, record, users, limiter, ai_analyses,
                   emergency_plans, browser>>

InitAnalytics ==
    /\ vehicles = <<>>
    /\ v2v_messages = <<>>
    /\ lastOp = NoOp
    /\ now = AnalyticsNow
    /\ sweep = <<>>
    /\ statusReply = NoReply
    /\ JobAtRest /\ HttpAtRest /\ ExtAtRest
    /\ feeds \in AnalyticsSettlements
    /\ aggResult = NoResult

NextAnalytics == GenerateAnalytics

SpecAnalytics == InitAnalytics /\ [][NextAnalytics]_vars


\* The call has returned.
Generated == lastOp # NoOp /\ lastOp.op = "analytics"

\* byType[t], 0 for a type without a key.
ByType(t) ==
    IF t \in DOMAIN lastOp.data.summary.byType
    THEN lastOp.data.summary.byType[t]
    ELSE 0

\* The event's time lies in the window: `time`, or the startTime of a
\* weather alert.
EventInWindow(disaster) ==
    \/ /\ "time" \in DOMAIN disaster
       /\ disaster.time >= lastOp.data.period.start
    \/ /\ "startTime" \in DOMAIN disaster
       /\ disaster.startTime >= lastOp.data.period.start

\* The records of the aggregated list of one type that satisfy Test.
OfType(t, Test(_)) ==
    {i \in 1..Len(aggResult.data) :
        aggResult.data[i].type = t /\ Test(aggResult.data[i])}

\* C28: summary.total and summary.byType count every record of the
\* aggregated list whose event time lies in the window, for each of the four
\* types, and total is the sum of the byType counts.
C28_CountsEveryType ==
    Generated =>
        /\ \A t \in {"earthquake", "weather", "tsunami", "volcanic"} :
              ByType(t) = Cardinality(OfType(t, EventInWindow))
        /\ lastOp.data.summary.total =
              ByType("earthquake") + ByType("weather") + ByType("tsunami")
                  + ByType("volcanic")

\* What the code does: only the records that carry `time` are counted, so
\* weather alerts and volcanic records never are; total is the sum of the
\* byType counts.
CountsTimedRecordsOnly ==
    Generated =>
        /\ \A t \in {"earthquake", "tsunami"} :
              ByType(t) = Cardinality(OfType(t, EventInWindow))
        /\ ByType("weather") = 0 /\ ByType("volcanic") = 0
        /\ lastOp.data.summary.total =
              ByType("earthquake") + ByType("weather") + ByType("tsunami")
                  + ByType("volcanic")

\* A weather alert that started inside the window was aggregated and the
\* summary has no weather count.
WeatherAlertDropped ==
    /\ Generated
    /\ OfType("weather", EventInWindow) # {}
    /\ ByType("weather") = 0

\* The days of a set in chronological order.
RECURSIVE Chronological(_)
Chronological(days) ==
    IF days = {} THEN <<>>
    ELSE LET last == CHOOSE d \in days : \A e \in days : e <= d
         IN  Append(Chronological(days \ {last}), last)

\* The records the analytics were computed over.
Filtered ==
    SelectSeq(aggResult.data,
              LAMBDA d : InRange(d, lastOp.data.period.start))

\* The per-day totals in chronological order.
ChronologicalTotals ==
    DailyTotals(Filtered,
                Chronological({Filtered[i].time : i \in 1..Len(Filtered)}))

\* C29: the trend is that of the per-day counts in chronological order:
\* 'stable' for fewer than two days, 'increasing' when the average of the
\* later half of the days is more than 10% above that of the earlier half,
\* 'decreasing' when it is more than 10% below, 'stable' otherwise.
C29_TrendChronological ==
    Generated =>
        lastOp.data.trends.trend = calculateTrend(ChronologicalTotals)

\* What the code does: the totals are taken in the order of the aggregated
\* list.  When all its records carry `time` that is newest first, so the
\* first half holds the later days; with a weather or volcanic record in it
\* the list is not sorted (C7) and the days come in the order of the list.
TrendNewestFirst ==
    (/\ Generated
     /\ \A i \in 1..Len(aggResult.data) : "time" \in DOMAIN aggResult.data[i])
    =>  /\ lastOp.data.trends.trend =
              calculateTrend(Reverse(ChronologicalTotals))
        /\ lastOp.data.trends.totals = Reverse(ChronologicalTotals)

\* One event on the earlier day, two on the later one: reported as
\* 'decreasing'.
RisingReportedFalling ==
    /\ Generated
    /\ ChronologicalTotals = <<1, 2>>
    /\ lastOp.data.trends.trend = "decreasing"



(***************************************************************************)
(* POST /api/auth/verify and PUT /api/auth/profile (SpecVerify).  A verify *)
(* request reads the user document and writes it after a second await;     *)
(* other requests run between the two.                                     *)
(***************************************************************************)

\* The most requests in one behaviour, and the last clock value.
MaxVerifyRequests == 3
MaxVerifyTime == 2

\* The users who sign in, and what their ID token decodes to.
VerifyUids == {"u1"}
DecodedToken(uid) == [uid |-> uid, email |-> "mail", name |-> "token name"]

\* The bodies of PUT /profile.
ProfileBodies ==
    {[name |-> "new name"],
     [preferences |-> [notifications |-> FALSE, language |-> "kk",
                       region |-> "asia"]]}

\* The document set() writes for a user without one.
NewUserDocument(userData) ==
    [createdAt |-> now, lastLoginAt |-> now,
     preferences |-> [notifications |-> TRUE, language |-> "en",
                      region |-> "asia"]] @@ userData

VerifyFrame ==
    UNCHANGED <<v2vVars, sweep, statusReply, jobVars, aggVars, chat_history,
                feature, record, analytics, limiter, ai_analyses,
                emergency_plans, browser>>

\* POST /verify up to its first store await: the body is validated and the
\* ID token verified (401 from the catch when it is not valid).
VerifyReceive ==
    /\ Len(http) < MaxVerifyRequests
    /\ \E uid \in VerifyUids, valid \in BOOLEAN :
          http' = Append(http, [route |-> "verify", uid |-> uid,
                                pc |-> IF valid THEN "get" ELSE "done",
                                status |-> IF valid THEN 0 ELSE 401,
                                exists |-> FALSE])
    /\ UNCHANGED <<users, now>>
    /\ VerifyFrame

\* await firestore.collection('users').doc(uid).get() settles.
VerifyGet ==
    /\ \E i \in 1..Len(http), storeOk \in BOOLEAN :
          /\ http[i].route = "verify"
          /\ http[i].pc = "get"
          /\ http' = IF storeOk
                     THEN [http EXCEPT ![i].pc = "write",
                                       ![i].exists = http[i].uid \in DOMAIN users]
                     ELSE [http EXCEPT ![i].pc = "done", ![i].status = 401]
    /\ UNCHANGED <<users, now>>
    /\ VerifyFrame

\* The write of POST /verify settles: update() of lastLoginAt when the get
\* found the document (it throws when the document is gone), set() of a new
\* document when it did not; then the answer.
VerifyWrite ==
    /\ \E i \in 1..Len(http), storeOk \in BOOLEAN :
          LET uid == http[i].uid
          IN  /\ http[i].route = "verify"
              /\ http[i].pc = "write"
              /\ IF ~storeOk \/ (http[i].exists /\ uid \notin DOMAIN users)
                 THEN /\ http' = [http EXCEPT ![i].pc = "done",
                                              ![i].status = 401]
                      /\ UNCHANGED users
                 ELSE /\ http' = [http EXCEPT ![i].pc = "done",
                                              ![i].status = 200]
                      /\ users' =
                            IF http[i].exists
                            THEN [users EXCEPT ![uid].lastLoginAt = now]
                            ELSE (uid :> NewUserDocument(DecodedToken(uid)))
                                     @@ users
    /\ UNCHANGED now
    /\ VerifyFrame

\* PUT /profile: update() of the body's fields and updatedAt; it throws when
\* the user has no document.
PutProfile ==
    /\ Len(http) < MaxVerifyRequests
    /\ \E uid \in VerifyUids, body \in ProfileBodies :
          IF uid \in DOMAIN users
          THEN /\ users' = [users EXCEPT
                              ![uid] = body @@ [updatedAt |-> now] @@ @]
               /\ http' = Append(http, [route |-> "profile", uid |-> uid,
                                        pc |-> "done", status |-> 200,
                                        exists |-> TRUE])
          ELSE /\ UNCHANGED users
               /\ http' = Append(http, [route |-> "profile", uid |-> uid,
                                        pc |-> "done", status |-> 500,
                                        exists |-> FALSE])
    /\ UNCHANGED now
    /\ VerifyFrame

\* Time passes.
VerifyClock ==
    /\ now < MaxVerifyTime
    /\ now' = now + 1
    /\ UNCHANGED <<users, http>>
    /\ VerifyFrame

InitVerify ==
    /\ vehicles = <<>>
    /\ v2v_messages = <<>>
    /\ lastOp = NoOp
    /\ StatusAtRest /\ JobAtRest /\ AggAtRest /\ HttpAtRest /\ ExtAtRest

NextVerify ==
    \/ VerifyReceive \/ VerifyGet \/ VerifyWrite \/ PutProfile \/ VerifyClock

SpecVerify == InitVerify /\ [][NextVerify]_vars

\* Request i is a POST /verify answered 200 in this step.
Verified(i) ==
    /\ i <= Len(http)
    /\ http[i].route = "verify"
    /\ http[i].pc = "write"
    /\ http'[i].status = 200

\* The fields of a user's document other than lastLoginAt are as they were.
ProfileKept(uid) ==
    /\ uid \in DOMAIN users'
    /\ DOMAIN users'[uid] = DOMAIN users[uid]
    /\ \A f \in DOMAIN users[uid] \ {"lastLoginAt"} :
          users'[uid][f] = users[uid][f]

\* C30: POST /verify with a valid token creates the user's document, with
\* the default preferences, only when the user has none; when the user has
\* one it changes nothing but lastLoginAt, so the earlier profile fields
\* stay.
C30_VerifyKeepsProfile ==
    [][\A i \in 1..MaxVerifyRequests, uid \in VerifyUids :
          (Verified(i) /\ http[i].uid = uid) =>
              IF uid \in DOMAIN users
              THEN ProfileKept(uid)
              ELSE users'[uid] = NewUserDocument(DecodedToken(uid))]_vars

\* What the code does: the write follows what the get read, not what is
\* stored when the write happens.
WriteFollowsRead ==
    [][\A i \in 1..MaxVerifyRequests, uid \in VerifyUids :
          (Verified(i) /\ http[i].uid = uid) =>
              IF http[i].exists
              THEN ProfileKept(uid)
              ELSE users'[uid] = NewUserDocument(DecodedToken(uid))]_vars

\* Two sign-ins of a new user overlapped, the profile was changed between
\* their writes, and the document is the default one again.
ProfileLost ==
    /\ Len(http) = 3
    /\ http[1].route = "verify" /\ http[1].status = 200
    /\ http[2].route = "verify" /\ http[2].status = 200
    /\ http[3].route = "profile" /\ http[3].status = 200
    /\ "u1" \in DOMAIN users
    /\ users["u1"].name = "token name"
    /\ "updatedAt" \notin DOMAIN users["u1"]

=============================================================================
